---- MODULE Spec2Model ----
(***************************************************************************)
(* Payment settlement and order fulfilment of the store backend:           *)
(* routes/payment.js (POST /verify, /verify-upi, /cod, /webhook),          *)
(* routes/orders.js (PUT /:id/cancel) and utils/transactions.js            *)
(* (withTransaction, executePaymentTransaction,                            *)
(* cancelOrderWithStockRestore), over the Order, Payment, Product and Cart *)
(* collections.  Every request handler is a process; one action is the     *)
(* code between two awaits, so handlers interleave exactly where the       *)
(* event loop lets them.                                                   *)
(***************************************************************************)
EXTENDS Integers, Sequences, FiniteSets, TLC

\* ------------------------------------------------------------------ bounds
NProcs == 2
MaxCalls == 3
MaxStock == 2

\* ------------------------------------------------------- program constants
FREE_SHIPPING_ABOVE == 999
SHIPPING_FEE == 49
COD_LIMIT == 5000
DEFAULT_MAX_RETRIES == 3

\* ------------------------------------------------------------ value spaces
Procs == 1..NProcs
Users == {"u1", "u2"}
Products == {"p1", "p2"}
Pids == {"pay1", "pay2"}
RzpOrders == {"ro1"}
NoPid == "nopid"
NoRzp == "norzp"
NoProduct == "noproduct"
NoUser == "nouser"
NoOrder == 0

\* Order.js:19,23,24 and Payment.js:21,37: the schema enums a save validates.
OrderStatusEnum == {"CREATED", "PENDING", "PAID", "PLACED", "SHIPPED", "DELIVERED", "CANCELLED"}
PaymentMethodEnum == {"COD", "Razorpay", "UPI", "Card", "NetBanking", "Wallet", "Pending"}
PaymentStatusEnum == {"Pending", "Paid", "Failed", "Refunded"}
LedgerMethodEnum == {"UPI", "Card", "NetBanking", "Wallet", "COD", "Unknown"}
LedgerStatusEnum == {"CREATED", "PENDING", "PAID", "FAILED", "REFUNDED", "CANCELLED"}

\* Catalogue price of each product (Product.price), fixed during a run.
ProductPrice == [pr \in Products |-> IF pr = "p1" THEN 600 ELSE 400]

VARIABLES
    stock,      \* Product.stock of every product
    orders,     \* the Order collection, in insertion order; _id is the index
    payments,   \* the Payment collection (the ledger), in insertion order
    cart,       \* Cart.items of every user
    proc,       \* the request handlers in flight: position and local variables
    calls,      \* number of requests started so far
    stock0,     \* history: stock at the start of the run
    cart0,      \* history: the carts at the start of the run
    applied,    \* history: per product, what stock decrements removed
    restored    \* history: per product, what cancellations added back

vars == <<stock, orders, payments, cart, proc, calls, stock0, cart0, applied, restored>>

\* ------------------------------------------------------------------ helpers
Max(a, b) == IF a >= b THEN a ELSE b

\* item.quantity || 1
Qty(item) == IF item.quantity = 0 THEN 1 ELSE item.quantity

RECURSIVE SumSeq(_)
SumSeq(s) == IF s = <<>> THEN 0 ELSE Head(s) + SumSeq(Tail(s))

\* Total quantity of product pr over the line items of an order.
QtyOf(items, pr) ==
    SumSeq([k \in 1..Len(items) |-> IF items[k].product = pr THEN Qty(items[k]) ELSE 0])

\* crypto.createHmac('sha256', KEY_SECRET).update(`${order_id}|${payment_id}`):
\* a keyed hash determined by the pair and by nothing else.
Sign(rzp, pid) == <<"hmac", rzp, pid>>
\* The proofs a caller presents for (rzp, pid): the gateway's, or one that is not.
Forged == <<"forged">>
ProofsFor(rzp, pid) == {Sign(rzp, pid), Forged}

\* A keyed hash that does not depend on the payload.
WebhookSign_noBody(body) == <<"whmac">>

\* crypto.createHmac('sha256', WEBHOOK_SECRET).update(JSON.stringify(req.body))
WebhookSign(body) == <<"whmac", body>>

\* `TCS${String(count + 1).padStart(6, '0')}`: the number decides the string.
OrderNumberOf(count) == count + 1

NoDoc == [user |-> NoUser]
NoResp == [code |-> 0]

IdleProc ==
    [op |-> "none", pc |-> "idle", user |-> NoUser, role |-> "user", pid |-> NoPid,
     rzp |-> NoRzp, sig |-> Forged, oid |-> NoOrder, doc |-> NoDoc,
     base |-> NoDoc, i |-> 0, read |-> 0, attempt |-> 0, event |-> "none",
     txn |-> "none", sessions |-> 0, resp |-> NoResp]

\* Order ids stored so far.
OrderIds == 1..Len(orders)

OrdersWithPid(pid) == {o \in OrderIds : orders[o].paymentId = pid}
LedgerWithPid(pid) == {k \in 1..Len(payments) : payments[k].razorpayPaymentId = pid}

\* ----------------------------------------------------- mongoose save of a doc
\* A save that validates nothing.
ValidOrderDoc_any(doc) == TRUE

\* A save validates the document against the schema enums.
ValidOrderDoc(doc) ==
    /\ doc.status \in OrderStatusEnum
    /\ doc.paymentMethod \in PaymentMethodEnum
    /\ doc.paymentStatus \in PaymentStatusEnum

\* Order.paymentId declared without its unique index.
PidClash_noIndex(o, pid) == FALSE

\* The unique sparse index on Order.paymentId: a write that would give order o
\* the payment id of another stored order fails with E11000.
PidClash(o, pid) == pid # NoPid /\ \E x \in OrderIds : x # o /\ orders[x].paymentId = pid

\* Order.orderNumber declared without its unique index.
NumberClash_noIndex(n) == FALSE

\* The unique index on Order.orderNumber.
NumberClash(n) == \E x \in OrderIds : orders[x].orderNumber = n

\* A save that writes the whole in-memory document over the stored one.
SavedOrder_overwrite(stored, doc, base) == doc

\* order.save() of a loaded document: $set of the paths whose value differs from
\* the loaded one, $push of the entries pushed on statusHistory since.
SavedOrder(stored, doc, base) ==
    [f \in DOMAIN stored |->
        IF f = "statusHistory"
        THEN stored.statusHistory \o
             SubSeq(doc.statusHistory, Len(base.statusHistory) + 1, Len(doc.statusHistory))
        ELSE IF doc[f] # base[f] THEN doc[f] ELSE stored[f]]

\* -------------------------------------------------------------- Order.js
\* isPaymentAlreadyProcessed(paymentId)
isPaymentAlreadyProcessed(pid) ==
    /\ pid # NoPid
    /\ \E o \in OrderIds : orders[o].paymentId = pid /\ orders[o].paymentStatus = "Paid"

\* Order.findOne({ paymentId }): the first match, or NoOrder.
FindOneByPid(pid) ==
    IF OrdersWithPid(pid) = {} THEN NoOrder
    ELSE CHOOSE o \in OrdersWithPid(pid) : \A x \in OrdersWithPid(pid) : o <= x

\* ------------------------------------------------------ shipping and totals
\* The flat fee charged whatever the subtotal.
ShippingCharge_flat(subtotal) == SHIPPING_FEE

\* const shippingCharge = totalAmount > 999 ? 0 : 49
ShippingCharge(subtotal) == IF subtotal > FREE_SHIPPING_ABOVE THEN 0 ELSE SHIPPING_FEE

\* createOrderFromCart's line item for a cart item: price is item.price || product.price.
EnrichedItem(item) ==
    [product |-> item.product,
     price |-> IF item.price # 0 THEN item.price ELSE ProductPrice[item.product],
     quantity |-> Qty(item)]

EnrichedItems(items) == [k \in 1..Len(items) |-> EnrichedItem(items[k])]

Subtotal(items) == SumSeq([k \in 1..Len(items) |-> items[k].price * Qty(items[k])])

\* -------------------------------------------------------------- responses
Resp(code, success, oid, num, msg) ==
    [code |-> code, success |-> success, orderId |-> oid, orderNumber |-> num, msg |-> msg,
     log |-> ""]

\* The handler has answered: its local variables are gone, the request and the
\* response remain on record.
Answered(rec, r) ==
    [rec EXCEPT !.pc = "done", !.resp = r, !.doc = NoDoc, !.base = NoDoc,
                !.i = 0, !.read = 0, !.attempt = 0]

Finish(p, r) == proc' = [proc EXCEPT ![p] = Answered(proc[p], r)]

\* A worker slot is free before its first request and after it has answered;
\* the next request goes to the lowest free slot.
Free(p) ==
    /\ proc[p].pc \in {"idle", "done"}
    /\ \A q \in Procs : q < p => proc[q].pc \notin {"idle", "done"}

Goto(p, pc) == proc' = [proc EXCEPT ![p].pc = pc]

\* What the handler does with an error thrown out of createOrderFromCart or out
\* of a save: POST /verify and /verify-upi answer 500 with the message, the
\* webhook logs it and acknowledges.
Thrown(p, msg) ==
    IF proc[p].op = "webhook"
    THEN Finish(p, [Resp(200, TRUE, NoOrder, 0, "received") EXCEPT !.log = msg])
    ELSE Finish(p, [Resp(500, FALSE, NoOrder, 0, msg) EXCEPT !.log = msg])

\* =================================================== reduceStockAfterPayment
\* The guard left out: the flag is never looked at.
SkipReduce_never(doc) == FALSE

\* payment.js:23: the guard on the in-memory order document.
SkipReduce(doc) == doc.stockReduced

\* Index of the first line item at or after `from` that has a product
\* reference (if (item.product)), 0 when there is none.
NextProductIndex(items, from) ==
    LET S == {k \in from..Len(items) : items[k].product # NoProduct}
    IN IF S = {} THEN 0 ELSE CHOOSE k \in S : \A x \in S : k <= x

\* Where the caller of reduceStockAfterPayment goes on: createOrderFromCart
\* creates the payment record, POST /verify-upi too.
AfterReducePc(op) == IF op = "verifyUpi" THEN "u_pay" ELSE "c_pay"

\* reduceStockAfterPayment(order) is called: the guard, then the first line
\* item with a product reference.  Only the handler's own document is read.
ReduceEnter(p) ==
    /\ proc[p].pc = "r_enter"
    /\ IF SkipReduce(proc[p].doc)
       THEN Goto(p, AfterReducePc(proc[p].op))
       ELSE LET k == NextProductIndex(proc[p].doc.items, 1)
            IN IF k = 0 THEN Goto(p, "r_flag")
               ELSE proc' = [proc EXCEPT ![p].pc = "r_read", ![p].i = k]
    /\ UNCHANGED <<stock, orders, payments, cart, calls, stock0, cart0, applied, restored>>

\* const product = await Product.findById(item.product)
ReduceRead(p) ==
    /\ proc[p].pc = "r_read"
    /\ proc' = [proc EXCEPT ![p].pc = "r_write",
                            ![p].read = stock[proc[p].doc.items[proc[p].i].product]]
    /\ UNCHANGED <<stock, orders, payments, cart, calls, stock0, cart0, applied, restored>>

\* The subtraction without the floor at zero.
NewStock_noClamp(read, item) == read - Qty(item)

\* const newStock = Math.max(0, product.stock - (item.quantity || 1))
NewStock(read, item) == Max(0, read - Qty(item))

\* product.stock = newStock; await product.save(): the value computed from the
\* stock read before is written; an unchanged value is no write.
ReduceWrite(p) ==
    /\ proc[p].pc = "r_write"
    /\ LET item == proc[p].doc.items[proc[p].i]
           new == NewStock(proc[p].read, item)
           k == NextProductIndex(proc[p].doc.items, proc[p].i + 1)
       IN /\ stock' = IF new # proc[p].read
                      THEN [stock EXCEPT ![item.product] = new] ELSE stock
          /\ applied' = [applied EXCEPT ![item.product] = @ + (proc[p].read - new)]
          /\ proc' = [proc EXCEPT ![p].pc = IF k = 0 THEN "r_flag" ELSE "r_read",
                                  ![p].i = k]
    /\ UNCHANGED <<orders, payments, cart, calls, stock0, cart0, restored>>

\* order.stockReduced = true; await order.save(); return true
ReduceFlag(p) ==
    /\ proc[p].pc = "r_flag"
    /\ LET doc == [proc[p].doc EXCEPT !.stockReduced = TRUE]
           o == proc[p].oid
       IN /\ orders' = [orders EXCEPT ![o] = SavedOrder(orders[o], doc, proc[p].base)]
          /\ proc' = [proc EXCEPT ![p].doc = doc, ![p].base = doc,
                                  ![p].pc = AfterReducePc(proc[p].op)]
    /\ UNCHANGED <<stock, payments, cart, calls, stock0, cart0, applied, restored>>

\* payment.js:28,53-56: a storage operation inside reduceStockAfterPayment
\* (Product.findById, product.save, order.save) throws; the catch logs and
\* returns false, and the caller goes on.
ReduceFail(p) ==
    /\ proc[p].pc \in {"r_read", "r_write", "r_flag"}
    /\ proc' = [proc EXCEPT ![p].pc = AfterReducePc(proc[p].op), ![p].i = 0, ![p].read = 0]
    /\ UNCHANGED <<stock, orders, payments, cart, calls, stock0, cart0, applied, restored>>

\* ======================================================= createPaymentRecord
\* new Payment({...}).save(); E11000 on razorpayPaymentId (and any other error)
\* is swallowed and the ledger stays as it is.
LedgerInsert(ledger, rec) ==
    IF rec.razorpayPaymentId # NoPid
       /\ \E k \in 1..Len(ledger) : ledger[k].razorpayPaymentId = rec.razorpayPaymentId
    THEN ledger
    ELSE Append(ledger, rec)

LedgerEntry(pid, rzp, oid, user, amount, method, status) ==
    [razorpayPaymentId |-> pid, razorpayOrderId |-> rzp, order |-> oid, user |-> user,
     amount |-> amount, method |-> method, status |-> status]

\* ======================================================= createOrderFromCart
\* The Order document createOrderFromCart builds from the cart items.
OrderFromCart(user, items, pid, rzp) ==
    LET enriched == EnrichedItems(items)
        sub == Subtotal(enriched)
        ship == ShippingCharge(sub)
    IN [user |-> user, items |-> enriched, totalAmount |-> sub + ship,
        shippingCharge |-> ship, status |-> "PAID", paymentStatus |-> "Paid",
        paymentMethod |-> "Razorpay", paymentId |-> pid, razorpayOrderId |-> rzp,
        stockReduced |-> FALSE, statusHistory |-> <<"PAID">>, orderNumber |-> 0]

\* const cart = await Cart.findOne({ user }); the items are enriched and the
\* document is built; an empty cart throws 'Cart is empty'.
CofcCart(p) ==
    /\ proc[p].pc = "c_cart"
    /\ IF cart[proc[p].user] = <<>>
       THEN Thrown(p, "Cart is empty")
       ELSE proc' = [proc EXCEPT ![p].pc = "c_count",
                       ![p].doc = OrderFromCart(proc[p].user, cart[proc[p].user],
                                                proc[p].pid, proc[p].rzp)]
    /\ UNCHANGED <<stock, orders, payments, cart, calls, stock0, cart0, applied, restored>>

\* Order.js pre('save'): orderNumber from countDocuments() + 1.
CofcCount(p) ==
    /\ proc[p].pc = "c_count"
    /\ proc' = [proc EXCEPT ![p].pc = "c_insert",
                            ![p].doc.orderNumber = OrderNumberOf(Len(orders))]
    /\ UNCHANGED <<stock, orders, payments, cart, calls, stock0, cart0, applied, restored>>

\* await order.save(): the insert; a duplicate paymentId or orderNumber is
\* E11000, thrown out of createOrderFromCart.  On success
\* reduceStockAfterPayment(order) is called next.
CofcInsert(p) ==
    /\ proc[p].pc = "c_insert"
    /\ IF PidClash(NoOrder, proc[p].doc.paymentId) \/ NumberClash(proc[p].doc.orderNumber)
       THEN Thrown(p, "E11000") /\ UNCHANGED orders
       ELSE /\ orders' = Append(orders, proc[p].doc)
            /\ proc' = [proc EXCEPT ![p].pc = "r_enter", ![p].oid = Len(orders) + 1,
                                    ![p].base = proc[p].doc]
    /\ UNCHANGED <<stock, payments, cart, calls, stock0, cart0, applied, restored>>

\* await createPaymentRecord({... amount: totalAmount, method: 'Card', status: 'PAID'})
CofcPay(p) ==
    /\ proc[p].pc = "c_pay"
    /\ payments' = LedgerInsert(payments,
                      LedgerEntry(proc[p].pid, proc[p].rzp, proc[p].oid, proc[p].user,
                                  proc[p].doc.totalAmount, "Card", "PAID"))
    /\ Goto(p, "c_invoice")
    /\ UNCHANGED <<stock, orders, cart, calls, stock0, cart0, applied, restored>>

\* const invoiceData = await generateAndSaveInvoice(order); order.save(): the
\* invoice collaborator may throw, and here nothing catches it.
CofcInvoice(p) ==
    /\ proc[p].pc = "c_invoice"
    /\ \/ Goto(p, "c_clear")
       \/ Thrown(p, "invoice failed")
    /\ UNCHANGED <<stock, orders, payments, cart, calls, stock0, cart0, applied, restored>>

\* await Cart.findOneAndUpdate({ user }, { items: [] }); return order; the
\* caller answers: POST /verify with the order identity, the webhook with its
\* acknowledgement.
CofcClear(p) ==
    /\ proc[p].pc = "c_clear"
    /\ cart' = [cart EXCEPT ![proc[p].user] = <<>>]
    /\ IF proc[p].op = "webhook"
       THEN Finish(p, Resp(200, TRUE, NoOrder, 0, "received"))
       ELSE Finish(p, Resp(200, TRUE, proc[p].oid, proc[p].doc.orderNumber,
                           "Payment verified & order created"))
    /\ UNCHANGED <<stock, orders, payments, calls, stock0, cart0, applied, restored>>

\* ============================================================== POST /verify
BeginVerify(p, u, pid, rzp, sig) ==
    /\ Free(p)
    /\ calls < MaxCalls
    /\ calls' = calls + 1
    /\ proc' = [proc EXCEPT ![p] = [IdleProc EXCEPT !.op = "verify", !.pc = "v_idem",
                      !.user = u, !.pid = pid, !.rzp = rzp, !.sig = sig]]
    /\ UNCHANGED <<stock, orders, payments, cart, stock0, cart0, applied, restored>>

StartVerify(p) ==
    \E u \in Users, pid \in Pids, rzp \in RzpOrders :
        \E sig \in ProofsFor(rzp, pid) : BeginVerify(p, u, pid, rzp, sig)

\* payment.js:308-326: the idempotency check, then the signature check.
VerifyIdem(p) ==
    /\ proc[p].pc = "v_idem"
    /\ IF isPaymentAlreadyProcessed(proc[p].pid)
       THEN Goto(p, "v_find")
       ELSE IF Sign(proc[p].rzp, proc[p].pid) # proc[p].sig
            THEN Finish(p, Resp(400, FALSE, NoOrder, 0, "Invalid payment signature"))
            ELSE Goto(p, "c_cart")
    /\ UNCHANGED <<stock, orders, payments, cart, calls, stock0, cart0, applied, restored>>

\* const existingOrder = await Order.findOne({ paymentId }); the answer is the
\* existing order (POST /verify and POST /verify-upi alike).
VerifyFind(p) ==
    /\ proc[p].pc = "v_find"
    /\ LET o == FindOneByPid(proc[p].pid)
       IN IF o = NoOrder
          THEN Thrown(p, "TypeError")
          ELSE Finish(p, Resp(200, TRUE, o, orders[o].orderNumber, "Payment already processed"))
    /\ UNCHANGED <<stock, orders, payments, cart, calls, stock0, cart0, applied, restored>>

\* ============================================================= POST /webhook
\* req.body as far as the handler reads it: the event and the payment entity
\* (id, order_id, notes.userId, notes.orderId).
WebhookBody(rec) ==
    [event |-> rec.event, id |-> rec.pid, order_id |-> rec.rzp,
     userId |-> rec.user, orderId |-> rec.oid]

BeginWebhook(p, ev, pid, rzp, u, oid, forged) ==
    /\ Free(p)
    /\ calls < MaxCalls
    /\ calls' = calls + 1
    /\ LET rec == [IdleProc EXCEPT !.op = "webhook", !.pc = "w_sig", !.event = ev,
                       !.user = u, !.pid = pid, !.rzp = rzp, !.oid = oid]
       IN proc' = [proc EXCEPT ![p] =
                      [rec EXCEPT !.sig = IF forged THEN Forged
                                          ELSE WebhookSign(WebhookBody(rec))]]
    /\ UNCHANGED <<stock, orders, payments, cart, stock0, cart0, applied, restored>>

StartWebhook(p) ==
    \E ev \in {"payment.captured", "payment.failed"}, pid \in Pids, rzp \in RzpOrders,
       u \in Users \cup {NoUser}, oid \in OrderIds \cup {NoOrder}, forged \in BOOLEAN :
        BeginWebhook(p, ev, pid, rzp, u, oid, forged)

\* A delivery whose signature header is the keyed hash of another payload: the
\* same delivery with the payment id exchanged.
StartWebhookTampered(p) ==
    \E ev \in {"payment.captured"}, pid \in Pids, other \in Pids, rzp \in RzpOrders,
       u \in Users \cup {NoUser}, oid \in OrderIds \cup {NoOrder} :
        /\ other # pid
        /\ Free(p)
        /\ calls < MaxCalls
        /\ calls' = calls + 1
        /\ LET rec == [IdleProc EXCEPT !.op = "webhook", !.pc = "w_sig", !.event = ev,
                           !.user = u, !.pid = pid, !.rzp = rzp, !.oid = oid]
           IN proc' = [proc EXCEPT ![p] =
                          [rec EXCEPT !.sig = WebhookSign(WebhookBody([rec EXCEPT !.pid = other]))]]
        /\ UNCHANGED <<stock, orders, payments, cart, stock0, cart0, applied, restored>>

\* payment.js:434-457 and the case split of 470/496: the signature over the
\* body, the event, the idempotency check.
WebhookSig(p) ==
    /\ proc[p].pc = "w_sig"
    /\ IF proc[p].sig # WebhookSign(WebhookBody(proc[p]))
       THEN Finish(p, Resp(400, FALSE, NoOrder, 0, "Invalid webhook signature"))
       ELSE IF proc[p].event # "payment.captured"
       THEN Finish(p, Resp(200, TRUE, NoOrder, 0, "received"))
       ELSE IF isPaymentAlreadyProcessed(proc[p].pid)
       THEN Finish(p, Resp(200, TRUE, NoOrder, 0, "already_processed"))
       ELSE IF proc[p].oid # NoOrder THEN Goto(p, "w_load")
       ELSE IF proc[p].user # NoUser THEN Goto(p, "c_cart")
       ELSE Finish(p, Resp(200, TRUE, NoOrder, 0, "received"))
    /\ UNCHANGED <<stock, orders, payments, cart, calls, stock0, cart0, applied, restored>>

\* payment.js:474-481: what the webhook sets on the existing order.
WebhookPaidDoc(doc, pid) ==
    [doc EXCEPT !.paymentStatus = "Paid", !.paymentId = pid, !.paymentMethod = "UPI",
                !.status = "Placed", !.statusHistory = Append(@, "Placed")]

\* Case 1: const order = await Order.findById(orderId)
WebhookLoad(p) ==
    /\ proc[p].pc = "w_load"
    /\ LET o == proc[p].oid
       IN IF o \in OrderIds /\ orders[o].paymentStatus # "Paid"
          THEN proc' = [proc EXCEPT ![p].pc = "w_save", ![p].base = orders[o],
                                    ![p].doc = WebhookPaidDoc(orders[o], proc[p].pid)]
          ELSE Finish(p, Resp(200, TRUE, NoOrder, 0, "received"))
    /\ UNCHANGED <<stock, orders, payments, cart, calls, stock0, cart0, applied, restored>>

\* await order.save(): validation and the unique index decide; an error is
\* caught and logged (payment.js:491).
WebhookSave(p) ==
    /\ proc[p].pc = "w_save"
    /\ LET o == proc[p].oid
       IN IF ~ValidOrderDoc(proc[p].doc) \/ PidClash(o, proc[p].doc.paymentId)
          THEN Thrown(p, "save failed") /\ UNCHANGED orders
          ELSE /\ orders' = [orders EXCEPT ![o] =
                                SavedOrder(orders[o], proc[p].doc, proc[p].base)]
               /\ Finish(p, Resp(200, TRUE, NoOrder, 0, "received"))
    /\ UNCHANGED <<stock, payments, cart, calls, stock0, cart0, applied, restored>>

\* ========================================================== POST /verify-upi
BeginVerifyUpi(p, u, pid, rzp, sig, oid) ==
    /\ Free(p)
    /\ calls < MaxCalls
    /\ calls' = calls + 1
    /\ proc' = [proc EXCEPT ![p] = [IdleProc EXCEPT !.op = "verifyUpi", !.pc = "u_idem",
                      !.user = u, !.pid = pid, !.rzp = rzp, !.sig = sig, !.oid = oid]]
    /\ UNCHANGED <<stock, orders, payments, cart, stock0, cart0, applied, restored>>

StartVerifyUpi(p) ==
    \E u \in Users, pid \in Pids, rzp \in RzpOrders, oid \in OrderIds \cup {NoOrder} :
        \E sig \in ProofsFor(rzp, pid) : BeginVerifyUpi(p, u, pid, rzp, sig, oid)

\* payment.js:594-622: idempotency check, then the signature.
UpiIdem(p) ==
    /\ proc[p].pc = "u_idem"
    /\ IF isPaymentAlreadyProcessed(proc[p].pid)
       THEN Goto(p, "v_find")
       ELSE IF Sign(proc[p].rzp, proc[p].pid) # proc[p].sig
            THEN Goto(p, "u_failrec")
            ELSE Goto(p, "u_load")
    /\ UNCHANGED <<stock, orders, payments, cart, calls, stock0, cart0, applied, restored>>

\* payment.js:612-621: the rejected attempt is recorded as FAILED, amount 0.
UpiFailRec(p) ==
    /\ proc[p].pc = "u_failrec"
    /\ payments' = LedgerInsert(payments,
                      LedgerEntry(proc[p].pid, proc[p].rzp, proc[p].oid, proc[p].user,
                                  0, "UPI", "FAILED"))
    /\ Finish(p, Resp(400, FALSE, NoOrder, 0, "Invalid payment signature"))
    /\ UNCHANGED <<stock, orders, cart, calls, stock0, cart0, applied, restored>>

\* payment.js:641-649: what POST /verify-upi sets on the order.
UpiPaidDoc(doc, pid) ==
    [doc EXCEPT !.paymentStatus = "Paid", !.paymentId = pid, !.paymentMethod = "UPI",
                !.status = "PAID", !.statusHistory = Append(@, "PAID")]

\* const order = await Order.findById(orderId) and the checks on it.
UpiLoad(p) ==
    /\ proc[p].pc = "u_load"
    /\ LET o == proc[p].oid
       IN IF o \notin OrderIds
          THEN Finish(p, Resp(404, FALSE, NoOrder, 0, "Order not found"))
          ELSE IF orders[o].paymentStatus = "Paid"
          THEN Finish(p, Resp(200, TRUE, o, orders[o].orderNumber, "Order already paid"))
          ELSE proc' = [proc EXCEPT ![p].pc = "u_save", ![p].base = orders[o],
                                    ![p].doc = UpiPaidDoc(orders[o], proc[p].pid)]
    /\ UNCHANGED <<stock, orders, payments, cart, calls, stock0, cart0, applied, restored>>

\* await order.save(); then reduceStockAfterPayment(order) is called.
UpiSave(p) ==
    /\ proc[p].pc = "u_save"
    /\ LET o == proc[p].oid
       IN IF ~ValidOrderDoc(proc[p].doc) \/ PidClash(o, proc[p].doc.paymentId)
          THEN Thrown(p, "save failed") /\ UNCHANGED orders
          ELSE /\ orders' = [orders EXCEPT ![o] =
                                SavedOrder(orders[o], proc[p].doc, proc[p].base)]
               /\ proc' = [proc EXCEPT ![p].pc = "r_enter", ![p].base = proc[p].doc]
    /\ UNCHANGED <<stock, payments, cart, calls, stock0, cart0, applied, restored>>

\* await createPaymentRecord({... amount: order.totalAmount, method: 'UPI',
\* status: 'PAID'}); invoice and SMS errors are caught; the answer is success.
UpiPay(p) ==
    /\ proc[p].pc = "u_pay"
    /\ payments' = LedgerInsert(payments,
                      LedgerEntry(proc[p].pid, proc[p].rzp, proc[p].oid, proc[p].user,
                                  proc[p].doc.totalAmount, "UPI", "PAID"))
    /\ Finish(p, Resp(200, TRUE, proc[p].oid, proc[p].doc.orderNumber,
                      "Payment verified successfully"))
    /\ UNCHANGED <<stock, orders, cart, calls, stock0, cart0, applied, restored>>

\* ====================================================== POST /create-upi-order
\* payment.js:543-586.
BeginCreateUpi(p, u, oid) ==
    /\ Free(p)
    /\ calls < MaxCalls
    /\ calls' = calls + 1
    /\ proc' = [proc EXCEPT ![p] = [IdleProc EXCEPT !.op = "createUpi", !.pc = "g_load",
                      !.user = u, !.oid = oid]]
    /\ UNCHANGED <<stock, orders, payments, cart, stock0, cart0, applied, restored>>

\* payment.js:548-554: the order is loaded and must belong to the caller.
CreateUpiLoad(p) ==
    /\ proc[p].pc = "g_load"
    /\ LET o == proc[p].oid
       IN IF o \notin OrderIds
          THEN Finish(p, Resp(404, FALSE, NoOrder, 0, "Order not found"))
          ELSE IF orders[o].user # proc[p].user
          THEN Finish(p, Resp(403, FALSE, NoOrder, 0, "Access denied"))
          ELSE proc' = [proc EXCEPT ![p].pc = "g_gateway", ![p].base = orders[o],
                                    ![p].doc = orders[o]]
    /\ UNCHANGED <<stock, orders, payments, cart, calls, stock0, cart0, applied, restored>>

\* External order ids the gateway has given out: stored on an order, or held
\* by a handler that has not saved yet.
RzpIssued ==
    {orders[o].razorpayOrderId : o \in OrderIds}
    \cup {proc[q].rzp : q \in {r \in Procs : proc[r].op = "createUpi"}}

\* payment.js:570: getRazorpay().orders.create(options) answers with an id it
\* has not given out before, or fails (the route's 500).
CreateUpiGateway(p) ==
    /\ proc[p].pc = "g_gateway"
    /\ \/ \E rzp \in RzpOrders \ RzpIssued :
             proc' = [proc EXCEPT ![p].rzp = rzp, ![p].pc = "g_save",
                                  ![p].doc = [proc[p].doc EXCEPT !.razorpayOrderId = rzp]]
       \/ Finish(p, [Resp(500, FALSE, NoOrder, 0, "gateway") EXCEPT !.log = "gateway"])
    /\ UNCHANGED <<stock, orders, payments, cart, calls, stock0, cart0, applied, restored>>

\* payment.js:573-582: order.razorpayOrderId = razorpayOrder.id; order.save()
CreateUpiSave(p) ==
    /\ proc[p].pc = "g_save"
    /\ LET o == proc[p].oid
       IN orders' = [orders EXCEPT ![o] = SavedOrder(orders[o], proc[p].doc, proc[p].base)]
    /\ Finish(p, Resp(200, TRUE, proc[p].oid, 0, "upi order created"))
    /\ UNCHANGED <<stock, payments, cart, calls, stock0, cart0, applied, restored>>

\* ================================================================= POST /cod
BeginCod(p, u, oid) ==
    /\ Free(p)
    /\ calls < MaxCalls
    /\ calls' = calls + 1
    /\ proc' = [proc EXCEPT ![p] = [IdleProc EXCEPT !.op = "cod", !.pc = "d_load",
                      !.user = u, !.oid = oid]]
    /\ UNCHANGED <<stock, orders, payments, cart, stock0, cart0, applied, restored>>

StartCod(p) == \E u \in Users, oid \in OrderIds \cup {NoOrder} : BeginCod(p, u, oid)

\* The ceiling compared with >= : a total equal to the ceiling is refused.
CodOverLimit_ge(total) == total >= COD_LIMIT

\* payment.js:374: if (order.totalAmount > 5000)
CodOverLimit(total) == total > COD_LIMIT

\* payment.js:382-388: what POST /cod sets on the order.
CodDoc(doc) ==
    [doc EXCEPT !.paymentMethod = "COD", !.paymentStatus = "Pending",
                !.status = "PLACED", !.statusHistory = Append(@, "PLACED")]

\* payment.js:358-388: the order is loaded and checked, then updated in memory.
CodLoad(p) ==
    /\ proc[p].pc = "d_load"
    /\ LET o == proc[p].oid
       IN IF o = NoOrder
          THEN Finish(p, Resp(400, FALSE, NoOrder, 0, "Order ID is required"))
          ELSE IF o \notin OrderIds
          THEN Finish(p, Resp(404, FALSE, NoOrder, 0, "Order not found"))
          ELSE IF orders[o].user # proc[p].user
          THEN Finish(p, Resp(403, FALSE, NoOrder, 0, "Unauthorized"))
          ELSE IF CodOverLimit(orders[o].totalAmount)
          THEN Finish(p, Resp(400, FALSE, NoOrder, 0,
                              "COD is only available for orders up to 5,000"))
          ELSE proc' = [proc EXCEPT ![p].pc = "d_save", ![p].base = orders[o],
                                    ![p].doc = CodDoc(orders[o])]
    /\ UNCHANGED <<stock, orders, payments, cart, calls, stock0, cart0, applied, restored>>

\* await order.save()
CodSave(p) ==
    /\ proc[p].pc = "d_save"
    /\ LET o == proc[p].oid
       IN orders' = [orders EXCEPT ![o] = SavedOrder(orders[o], proc[p].doc, proc[p].base)]
    /\ proc' = [proc EXCEPT ![p].pc = "d_clear", ![p].base = proc[p].doc]
    /\ UNCHANGED <<stock, payments, cart, calls, stock0, cart0, applied, restored>>

\* Invoice and SMS errors are caught; the cart is cleared; the answer is success.
CodClear(p) ==
    /\ proc[p].pc = "d_clear"
    /\ cart' = [cart EXCEPT ![proc[p].user] = <<>>]
    /\ Finish(p, Resp(200, TRUE, proc[p].oid, proc[p].doc.orderNumber,
                      "COD order placed successfully"))
    /\ UNCHANGED <<stock, orders, payments, calls, stock0, cart0, applied, restored>>

\* ==================================================== utils/transactions.js
\* withTransaction: if (isTransient && attempt < maxRetries) retry, else throw.
\* The process record after an attempt aborted by a transient error.
AfterTransient(rec) ==
    IF rec.attempt < DEFAULT_MAX_RETRIES
    THEN [rec EXCEPT !.attempt = @ + 1]
    ELSE Answered(rec, [Resp(500, FALSE, NoOrder, 0, "transient") EXCEPT
                           !.log = "transient"])

\* Product.updateOne({ _id, stock: { $gte: qty } }, { $inc: { stock: -qty } })
CondDecrement(st, item) ==
    IF item.product # NoProduct /\ st[item.product] >= Qty(item)
    THEN [st EXCEPT ![item.product] = @ - Qty(item)]
    ELSE st

RECURSIVE DecrementAll(_, _)
DecrementAll(st, items) ==
    IF items = <<>> THEN st ELSE DecrementAll(CondDecrement(st, Head(items)), Tail(items))

\* Product.updateOne({ _id }, { $inc: { stock: qty } })
Restore(st, item) ==
    IF item.product # NoProduct
    THEN [st EXCEPT ![item.product] = @ + Qty(item)]
    ELSE st

RECURSIVE RestoreAll(_, _)
RestoreAll(st, items) ==
    IF items = <<>> THEN st ELSE RestoreAll(Restore(st, Head(items)), Tail(items))

\* ------------------------------------------------------ PUT /:id/cancel
BeginCancel(p, u, role, oid) ==
    /\ Free(p)
    /\ calls < MaxCalls
    /\ calls' = calls + 1
    /\ proc' = [proc EXCEPT ![p] = [IdleProc EXCEPT !.op = "cancel", !.pc = "x_load",
                      !.user = u, !.role = role, !.oid = oid]]
    /\ UNCHANGED <<stock, orders, payments, cart, stock0, cart0, applied, restored>>

StartCancel(p) ==
    \E u \in Users, role \in {"user", "admin"}, oid \in OrderIds \cup {NoOrder} :
        BeginCancel(p, u, role, oid)

\* orders.js:287: ['SHIPPED', 'DELIVERED'].includes(order.status)
CannotCancel(status) == status \in {"SHIPPED", "DELIVERED"}

\* orders.js:275-289: the route's own load and checks, outside the transaction.
CancelLoad(p) ==
    /\ proc[p].pc = "x_load"
    /\ LET o == proc[p].oid
       IN IF o \notin OrderIds
          THEN Finish(p, Resp(404, FALSE, NoOrder, 0, "Order not found"))
          ELSE IF orders[o].user # proc[p].user /\ proc[p].role # "admin"
          THEN Finish(p, Resp(403, FALSE, NoOrder, 0, "Access denied"))
          ELSE IF CannotCancel(orders[o].status)
          THEN Finish(p, Resp(400, FALSE, NoOrder, 0, "Cannot cancel"))
          ELSE proc' = [proc EXCEPT ![p].pc = "x_txn", ![p].attempt = 1]
    /\ UNCHANGED <<stock, orders, payments, cart, calls, stock0, cart0, applied, restored>>

\* The restoration left out of the unit of work.
RestoresStock_never(order) == FALSE

\* Whether cancelOrderWithStockRestore restores the stock of the order.
RestoresStock(order) == order.stockReduced /\ Len(order.items) > 0

\* The check of the stored status left out of the unit of work.
AlreadyCancelled_never(order) == FALSE

\* part_002:179: if (order.status === 'CANCELLED') throw
AlreadyCancelled(order) == order.status = "CANCELLED"

\* cancelOrderWithStockRestore: one attempt of the unit of work.  The order is
\* read in the transaction; the writes become visible together at the commit,
\* or not at all when the attempt is aborted.
CancelTxn(p) ==
    /\ proc[p].pc = "x_txn"
    /\ LET o == proc[p].oid
           order == orders[o]
       IN \/ /\ AlreadyCancelled(order)
             /\ Finish(p, [Resp(500, FALSE, NoOrder, 0, "Order is already cancelled")
                              EXCEPT !.log = "already cancelled"])
             /\ UNCHANGED <<stock, orders, restored>>
          \/ /\ ~AlreadyCancelled(order)
             /\ stock' = IF RestoresStock(order) THEN RestoreAll(stock, order.items)
                         ELSE stock
             /\ restored' = [pr \in Products |->
                               restored[pr] + (stock'[pr] - stock[pr])]
             /\ orders' = [orders EXCEPT ![o].status = "CANCELLED",
                                         ![o].statusHistory = Append(@, "CANCELLED")]
             /\ Finish(p, Resp(200, TRUE, o, order.orderNumber, "Order cancelled successfully"))
          \/ /\ proc' = [proc EXCEPT ![p] = AfterTransient(proc[p])]
             /\ UNCHANGED <<stock, orders, restored>>
    /\ UNCHANGED <<payments, cart, calls, stock0, cart0, applied>>

\* ------------------------------------------- withTransaction, step by step
\* The errors an attempt can end with: a storage error that carries the
\* TransientTransactionError label, the storage codes 251, 112 and 244, a
\* storage error of another code, and an Error thrown by the unit of work.
TxnErrors == {"TransientTransactionError", "251", "112", "244", "11000", "Error"}

\* Every error taken for transient.
isTransient_always(err) == TRUE

\* part_002:52-55: hasErrorLabel('TransientTransactionError') or code 251, 112, 244.
isTransient(err) == err \in {"TransientTransactionError", "251", "112", "244"}

\* cancelOrderWithStockRestore(orderId, ...) called: withTransaction enters its
\* loop with attempt = 1.
BeginTxn(p, oid) ==
    /\ Free(p)
    /\ calls < MaxCalls
    /\ calls' = calls + 1
    /\ proc' = [proc EXCEPT ![p] = [IdleProc EXCEPT !.op = "withTransaction", !.pc = "t_run",
                      !.oid = oid, !.attempt = 1]]
    /\ UNCHANGED <<stock, orders, payments, cart, stock0, cart0, applied, restored>>

StartTxn(p) == \E oid \in OrderIds \cup {NoOrder} : BeginTxn(p, oid)

\* part_002:66: finally { session.endSession() }
EndSession(rec) == [rec EXCEPT !.sessions = @ - 1]

\* The attempt after its unit of work has thrown err.
TxnThrown(rec, err) == [rec EXCEPT !.pc = "t_catch", !.event = err, !.doc = NoDoc, !.base = NoDoc]

\* part_002:29-38: startSession, startTransaction, await fn(session).  The unit
\* of work is the one of cancelOrderWithStockRestore (part_002:171-212): its
\* writes are on the session and wait for the commit; it throws its own Error
\* or the error of a storage operation.
TxnRun(p) ==
    /\ proc[p].pc = "t_run"
    /\ LET o == proc[p].oid
           started == [proc[p] EXCEPT !.sessions = @ + 1, !.txn = "active"]
       IN \/ IF o \notin OrderIds
             THEN proc' = [proc EXCEPT ![p] = TxnThrown(started, "Error")]
             ELSE IF orders[o].status = "CANCELLED"
             THEN proc' = [proc EXCEPT ![p] = TxnThrown(started, "Error")]
             ELSE proc' = [proc EXCEPT ![p] =
                              [started EXCEPT !.pc = "t_commit", !.base = orders[o],
                                  !.doc = [orders[o] EXCEPT !.status = "CANCELLED",
                                              !.statusHistory = Append(@, "CANCELLED")]]]
          \/ \E err \in TxnErrors \ {"Error"} :
                proc' = [proc EXCEPT ![p] = TxnThrown(started, err)]
    /\ UNCHANGED <<stock, orders, payments, cart, calls, stock0, cart0, applied, restored>>

\* part_002:41-44: await session.commitTransaction(); return result.  The
\* writes of the unit of work become visible here, or the commit fails.
TxnCommit(p) ==
    /\ proc[p].pc = "t_commit"
    /\ LET o == proc[p].oid
       IN \/ /\ stock' = IF RestoresStock(proc[p].base)
                         THEN RestoreAll(stock, proc[p].base.items) ELSE stock
             /\ restored' = [pr \in Products |-> restored[pr] + (stock'[pr] - stock[pr])]
             /\ orders' = [orders EXCEPT ![o] = SavedOrder(orders[o], proc[p].doc, proc[p].base)]
             /\ proc' = [proc EXCEPT ![p] =
                            Answered(EndSession([proc[p] EXCEPT !.txn = "committed"]),
                                     Resp(200, TRUE, o, orders[o].orderNumber, "committed"))]
          \/ /\ \E err \in TxnErrors \ {"Error", "11000"} :
                   proc' = [proc EXCEPT ![p] =
                               [TxnThrown(proc[p], err) EXCEPT !.read = 1,
                                                               !.txn = "commitFailed"]]
             /\ UNCHANGED <<stock, orders, restored>>
    /\ UNCHANGED <<payments, cart, calls, stock0, cart0, applied>>

\* part_002:46-68: the catch block and the finally block.  abortTransaction,
\* then the error is classified: another attempt when it is transient and
\* attempts remain, otherwise it is thrown.  After a failed commit (read = 1)
\* the driver may refuse the abort, and that error leaves the function at
\* once.  Whichever way the block is left, endSession runs.
TxnCatch(p) ==
    /\ proc[p].pc = "t_catch"
    /\ \/ LET aborted == EndSession([proc[p] EXCEPT !.txn = "aborted"])
          IN IF isTransient(proc[p].event) /\ proc[p].attempt < DEFAULT_MAX_RETRIES
             THEN proc' = [proc EXCEPT ![p] =
                              [aborted EXCEPT !.pc = "t_run", !.attempt = @ + 1,
                                              !.event = "none", !.read = 0]]
             ELSE proc' = [proc EXCEPT ![p] =
                              Answered(aborted, [Resp(500, FALSE, NoOrder, 0, proc[p].event)
                                                    EXCEPT !.log = proc[p].event])]
       \/ /\ proc[p].read = 1
          /\ proc' = [proc EXCEPT ![p] =
                         Answered(EndSession(proc[p]),
                                  [Resp(500, FALSE, NoOrder, 0, "MongoTransactionError")
                                      EXCEPT !.log = proc[p].event])]
    /\ UNCHANGED <<stock, orders, payments, cart, calls, stock0, cart0, applied, restored>>

\* ------------------------------------------------ executePaymentTransaction
\* The caller hands in an Order document it has loaded.
BeginEpt(p, oid, pid, rzp) ==
    /\ Free(p)
    /\ calls < MaxCalls
    /\ calls' = calls + 1
    /\ proc' = [proc EXCEPT ![p] = [IdleProc EXCEPT !.op = "ept", !.pc = "e_txn",
                      !.user = orders[oid].user, !.pid = pid, !.rzp = rzp, !.oid = oid,
                      !.doc = orders[oid], !.base = orders[oid], !.attempt = 1]]
    /\ UNCHANGED <<stock, orders, payments, cart, stock0, cart0, applied, restored>>

StartEpt(p) ==
    \E oid \in OrderIds, pid \in Pids, rzp \in RzpOrders : BeginEpt(p, oid, pid, rzp)

\* part_002:90-99: step 1 of the unit of work, on the in-memory document.
EptPaidDoc(doc, pid, rzp) ==
    [doc EXCEPT !.paymentStatus = "Paid", !.status = "PAID", !.paymentId = pid,
                !.razorpayOrderId = rzp, !.paymentMethod = "Razorpay",
                !.statusHistory = Append(@, "PAID")]

\* part_002:105: if (reduceStock && !order.stockReduced && order.items?.length > 0)
EptReduces(doc) == ~doc.stockReduced /\ Len(doc.items) > 0

\* One attempt of executePaymentTransaction's unit of work.  The in-memory
\* document keeps what the attempt did to it, also when the attempt is
\* aborted at point k (1: first save, 2: stock updates, 3: second save,
\* 4: payment insert or commit); the collections change only at a commit.
EptTxn(p) ==
    /\ proc[p].pc = "e_txn"
    /\ LET o == proc[p].oid
           doc1 == EptPaidDoc(proc[p].doc, proc[p].pid, proc[p].rzp)
           reduce == EptReduces(doc1)
           doc2 == IF reduce THEN [doc1 EXCEPT !.stockReduced = TRUE] ELSE doc1
           w1 == SavedOrder(orders[o], doc1, proc[p].base)
           w2 == IF reduce THEN SavedOrder(w1, doc2, doc1) ELSE w1
           dup == LedgerWithPid(proc[p].pid) # {}
           clash == doc1.paymentId # proc[p].base.paymentId /\ PidClash(o, doc1.paymentId)
       IN \/ /\ clash
             /\ Finish(p, [Resp(500, FALSE, NoOrder, 0, "E11000") EXCEPT !.log = "E11000"])
             /\ UNCHANGED <<stock, orders, payments, applied>>
          \/ /\ ~clash /\ ~dup
             /\ orders' = [orders EXCEPT ![o] = w2]
             /\ stock' = IF reduce THEN DecrementAll(stock, doc1.items) ELSE stock
             /\ applied' = [pr \in Products |-> applied[pr] + (stock[pr] - stock'[pr])]
             /\ payments' = Append(payments,
                               LedgerEntry(proc[p].pid, proc[p].rzp, o, w2.user,
                                           w2.totalAmount, "UPI", "PAID"))
             /\ Finish(p, Resp(200, TRUE, o, w2.orderNumber, "committed"))
          \/ /\ ~clash
             /\ \E k \in 1..4 :
                   /\ dup => k = 4
                   /\ k = 3 => reduce
                   /\ proc' = [proc EXCEPT ![p] = AfterTransient(
                          [proc[p] EXCEPT
                              !.doc = IF k <= 2 THEN doc1 ELSE doc2,
                              !.base = IF k = 1 THEN proc[p].base
                                       ELSE IF k <= 3 THEN doc1 ELSE doc2])]
             /\ UNCHANGED <<stock, orders, payments, applied>>
    /\ UNCHANGED <<cart, calls, stock0, cart0, restored>>

\* ------------------------------------------- createPaymentRecord failing
\* payment.js:80-88: payment.save() throws an error other than E11000; the
\* catch logs, returns null, and the caller goes on as after an insert.
PayFail(p) ==
    /\ proc[p].pc \in {"c_pay", "u_pay"}
    /\ IF proc[p].pc = "c_pay"
       THEN Goto(p, "c_invoice")
       ELSE Finish(p, Resp(200, TRUE, proc[p].oid, proc[p].doc.orderNumber,
                           "Payment verified successfully"))
    /\ UNCHANGED <<stock, orders, payments, cart, calls, stock0, cart0, applied, restored>>

\* ======================================================= PUT /:id/status
\* orders.js:169-184, behind protect and adminOnly: the caller is an admin.
\* pst is the paymentStatus of the body, "" when the body has none.
BeginAdminStatus(p, oid, status, pst) ==
    /\ Free(p)
    /\ calls < MaxCalls
    /\ calls' = calls + 1
    /\ proc' = [proc EXCEPT ![p] = [IdleProc EXCEPT !.op = "adminStatus", !.pc = "a_load",
                      !.role = "admin", !.oid = oid,
                      !.event = status, !.sig = <<pst>>]]
    /\ UNCHANGED <<stock, orders, payments, cart, stock0, cart0, applied, restored>>

\* The statuses and payment statuses an admin sends.
AdminStatuses == {"CREATED", "PAID", "SHIPPED", "DELIVERED"}

StartAdminStatus(p) ==
    \E oid \in OrderIds, status \in AdminStatuses, pst \in {"", "Paid"} :
        BeginAdminStatus(p, oid, status, pst)

\* orders.js:175-177: what the admin update sets on the order.
AdminDoc(doc, status, pst) ==
    [doc EXCEPT !.status = status,
                !.paymentStatus = IF pst # "" THEN pst ELSE @,
                !.statusHistory = Append(@, status)]

AdminLoad(p) ==
    /\ proc[p].pc = "a_load"
    /\ LET o == proc[p].oid
       IN IF o \notin OrderIds
          THEN Finish(p, Resp(404, FALSE, NoOrder, 0, "Order not found"))
          ELSE proc' = [proc EXCEPT ![p].pc = "a_save", ![p].base = orders[o],
                          ![p].doc = AdminDoc(orders[o], proc[p].event, proc[p].sig[1])]
    /\ UNCHANGED <<stock, orders, payments, cart, calls, stock0, cart0, applied, restored>>

\* await order.save(); res.json(order)
AdminSave(p) ==
    /\ proc[p].pc = "a_save"
    /\ LET o == proc[p].oid
       IN IF ~ValidOrderDoc(proc[p].doc)
          THEN Thrown(p, "save failed") /\ UNCHANGED orders
          ELSE /\ orders' = [orders EXCEPT ![o] =
                                SavedOrder(orders[o], proc[p].doc, proc[p].base)]
               /\ Finish(p, Resp(200, TRUE, o, orders[o].orderNumber, "updated"))
    /\ UNCHANGED <<stock, payments, cart, calls, stock0, cart0, applied, restored>>

\* ============================================== PUT /:id/confirm-payment
BeginConfirm(p, u, oid) ==
    /\ Free(p)
    /\ calls < MaxCalls
    /\ calls' = calls + 1
    /\ proc' = [proc EXCEPT ![p] = [IdleProc EXCEPT !.op = "confirm", !.pc = "f_load",
                      !.user = u, !.oid = oid]]
    /\ UNCHANGED <<stock, orders, payments, cart, stock0, cart0, applied, restored>>

StartConfirm(p) == \E u \in Users, oid \in OrderIds : BeginConfirm(p, u, oid)

\* orders.js:204-211: what the self-confirmation sets on the order.
ConfirmDoc(doc) ==
    [doc EXCEPT !.paymentStatus = "Paid", !.paymentMethod = "UPI",
                !.status = "Confirmed", !.statusHistory = Append(@, "Confirmed")]

\* orders.js:190-211: load, ownership, already-paid check, updates in memory.
ConfirmLoad(p) ==
    /\ proc[p].pc = "f_load"
    /\ LET o == proc[p].oid
       IN IF o \notin OrderIds
          THEN Finish(p, Resp(404, FALSE, NoOrder, 0, "Order not found"))
          ELSE IF orders[o].user # proc[p].user
          THEN Finish(p, Resp(403, FALSE, NoOrder, 0, "Access denied"))
          ELSE IF orders[o].paymentStatus = "Paid"
          THEN Finish(p, Resp(400, FALSE, NoOrder, 0, "Payment already confirmed"))
          ELSE proc' = [proc EXCEPT ![p].pc = "f_save", ![p].base = orders[o],
                                    ![p].doc = ConfirmDoc(orders[o])]
    /\ UNCHANGED <<stock, orders, payments, cart, calls, stock0, cart0, applied, restored>>

\* await order.save(): validation decides; an error is the route's 500.
ConfirmSave(p) ==
    /\ proc[p].pc = "f_save"
    /\ LET o == proc[p].oid
       IN IF ~ValidOrderDoc(proc[p].doc)
          THEN Thrown(p, "save failed") /\ UNCHANGED orders
          ELSE /\ orders' = [orders EXCEPT ![o] =
                                SavedOrder(orders[o], proc[p].doc, proc[p].base)]
               /\ Finish(p, Resp(200, TRUE, o, orders[o].orderNumber, "confirmed"))
    /\ UNCHANGED <<stock, payments, cart, calls, stock0, cart0, applied, restored>>

\* ============================================================= POST /orders
\* orders.js:11-98.  The request body carries the items and the payment
\* method; the address is complete and every product reference resolves.
BeginCheckout(p, u, items, method) ==
    /\ Free(p)
    /\ calls < MaxCalls
    /\ calls' = calls + 1
    /\ proc' = [proc EXCEPT ![p] = [IdleProc EXCEPT !.op = "checkout", !.pc = "o_build",
                      !.user = u,
                      !.doc = [user |-> u, items |-> items, paymentMethod |-> method]]]
    /\ UNCHANGED <<stock, orders, payments, cart, stock0, cart0, applied, restored>>

\* orders.js:77-96: the document Order.create is given.
CheckoutDoc(user, items, method) ==
    LET enriched == EnrichedItems(items)
        sub == Subtotal(enriched)
        ship == ShippingCharge(sub)
    IN [user |-> user, items |-> enriched, totalAmount |-> sub + ship,
        shippingCharge |-> ship, status |-> "CREATED", paymentStatus |-> "Pending",
        paymentMethod |-> IF method = "" THEN "Pending" ELSE method,
        paymentId |-> NoPid, razorpayOrderId |-> NoRzp,
        stockReduced |-> FALSE, statusHistory |-> <<"CREATED">>, orderNumber |-> 0]

\* orders.js:14-40: no items is a 400; else the items are enriched and totalled.
CheckoutBuild(p) ==
    /\ proc[p].pc = "o_build"
    /\ IF proc[p].doc.items = <<>>
       THEN Finish(p, Resp(400, FALSE, NoOrder, 0, "No items in order"))
       ELSE proc' = [proc EXCEPT ![p].pc = "o_count",
                       ![p].doc = CheckoutDoc(proc[p].user, proc[p].doc.items,
                                              proc[p].doc.paymentMethod)]
    /\ UNCHANGED <<stock, orders, payments, cart, calls, stock0, cart0, applied, restored>>

\* Order.create runs the pre('save') hook: orderNumber from countDocuments() + 1.
CheckoutCount(p) ==
    /\ proc[p].pc = "o_count"
    /\ proc' = [proc EXCEPT ![p].pc = "o_insert",
                            ![p].doc.orderNumber = OrderNumberOf(Len(orders))]
    /\ UNCHANGED <<stock, orders, payments, cart, calls, stock0, cart0, applied, restored>>

\* Order.create inserts; a validation error or E11000 is the route's 500.
CheckoutInsert(p) ==
    /\ proc[p].pc = "o_insert"
    /\ IF ~ValidOrderDoc(proc[p].doc) \/ NumberClash(proc[p].doc.orderNumber)
       THEN Thrown(p, "create failed") /\ UNCHANGED orders
       ELSE /\ orders' = Append(orders, proc[p].doc)
            /\ Finish(p, Resp(201, TRUE, Len(orders) + 1, proc[p].doc.orderNumber, "created"))
    /\ UNCHANGED <<stock, payments, cart, calls, stock0, cart0, applied, restored>>

Checkout(p) == CheckoutBuild(p) \/ CheckoutCount(p) \/ CheckoutInsert(p)

\* ============================================================ initial states
CartItem(pr, q, price) == [product |-> pr, quantity |-> q, price |-> price]

\* An order as POST /orders creates it (orders.js:21-98): CREATED, unpaid.
CreatedOrder(user, items, number) ==
    LET sub == Subtotal(items)
        ship == ShippingCharge(sub)
    IN [user |-> user, items |-> items, totalAmount |-> sub + ship,
        shippingCharge |-> ship, status |-> "CREATED", paymentStatus |-> "Pending",
        paymentMethod |-> "Pending", paymentId |-> NoPid, razorpayOrderId |-> NoRzp,
        stockReduced |-> FALSE, statusHistory |-> <<"CREATED">>, orderNumber |-> number]

InitBase(stocks, carts, ords) ==
    /\ stock \in stocks
    /\ cart \in carts
    /\ orders \in ords
    /\ payments = <<>>
    /\ proc = [p \in Procs |-> IdleProc]
    /\ calls = 0
    /\ stock0 = stock
    /\ cart0 = cart
    /\ applied = [pr \in Products |-> 0]
    /\ restored = [pr \in Products |-> 0]

\* ------------------------------------------------------------------ Spec
\* Settlement through POST /verify and POST /webhook, two handlers at a time.
FullStock == [pr \in Products |-> MaxStock]

SettleCarts ==
    {c \in [Users -> {<<>>, <<CartItem("p1", 2, 0)>>, <<CartItem("p2", 1, 0)>>}] :
        c["u1"] = <<CartItem("p1", 2, 0)>> /\ c["u2"] # <<CartItem("p1", 2, 0)>>}

\* The store with one order placed by POST /orders and not yet paid.
SettleOrders1 == <<CreatedOrder("u1", <<CartItem("p1", 1, 600)>>, 1)>>

SettleOrders == {<<>>, SettleOrders1}

Init == InitBase({FullStock}, SettleCarts, SettleOrders)

Shared(p) ==
    \/ CofcCart(p) \/ CofcCount(p) \/ CofcInsert(p)
    \/ ReduceEnter(p) \/ ReduceRead(p) \/ ReduceWrite(p) \/ ReduceFlag(p)
    \/ CofcPay(p) \/ CofcInvoice(p) \/ CofcClear(p)

\* The settlement calls: a valid proof on POST /verify, a signed
\* payment.captured delivery on POST /webhook.
StartVerifyValid(p) ==
    \E u \in Users, pid \in Pids, rzp \in RzpOrders :
        BeginVerify(p, u, pid, rzp, Sign(rzp, pid))

StartWebhookCaptured(p) ==
    \E pid \in Pids, rzp \in RzpOrders, u \in Users \cup {NoUser},
       oid \in OrderIds \cup {NoOrder} :
        BeginWebhook(p, "payment.captured", pid, rzp, u, oid, FALSE)

Next ==
    \E p \in Procs :
        \/ StartVerifyValid(p) \/ VerifyIdem(p) \/ VerifyFind(p)
        \/ StartWebhookCaptured(p) \/ WebhookSig(p) \/ WebhookLoad(p) \/ WebhookSave(p)
        \/ Shared(p)

Spec == Init /\ [][Next]_vars

\* --------------------------------------------------------------- SpecSeq
\* One request at a time: POST /verify and POST /verify-upi with the gateway's
\* proof or with another one, and PUT /:id/cancel, on a stock that may be
\* lower than the quantity ordered.
SeqStocks == {st \in [Products -> 1..MaxStock] : st["p2"] = MaxStock}

SeqInit == InitBase(SeqStocks, SettleCarts, {SettleOrders1})

SeqNext ==
    \/ StartVerify(1) \/ VerifyIdem(1) \/ VerifyFind(1)
    \/ StartVerifyUpi(1) \/ UpiIdem(1) \/ UpiFailRec(1) \/ UpiLoad(1) \/ UpiSave(1)
    \/ UpiPay(1)
    \/ StartCancel(1) \/ CancelLoad(1) \/ CancelTxn(1)
    \/ Shared(1)

SpecSeq == SeqInit /\ [][SeqNext]_vars

\* --------------------------------------------------------------- SpecCod
\* POST /cod, two handlers at a time, on orders whose totals are at, just above
\* and well above the COD ceiling.
CodOrders ==
    <<CreatedOrder("u1", <<CartItem("p1", 2, 2500)>>, 1),
      CreatedOrder("u1", <<CartItem("p2", 2, 3000)>>, 2),
      CreatedOrder("u2", <<CartItem("p2", 1, 5001)>>, 3)>>

CodInit == InitBase({FullStock}, SettleCarts, {CodOrders})

CodNext == \E p \in Procs : StartCod(p) \/ CodLoad(p) \/ CodSave(p) \/ CodClear(p)

SpecCod == CodInit /\ [][CodNext]_vars

\* ------------------------------------------------------------- SpecStock
\* Settlements of existing orders (POST /verify-upi with the gateway's proof,
\* executePaymentTransaction) and PUT /:id/cancel by the owner, two handlers
\* at a time, on two orders for the same product and a stock that covers one
\* of them or neither.
StockOrders ==
    <<CreatedOrder("u1", <<CartItem("p1", 2, 600)>>, 1),
      CreatedOrder("u2", <<CartItem("p1", 1, 600)>>, 2)>>

NoCarts == [u \in Users |-> <<>>]

StockInit == InitBase(SeqStocks, {NoCarts}, {StockOrders})

StartVerifyUpiValid(p) ==
    \E pid \in Pids, rzp \in RzpOrders, oid \in OrderIds :
        BeginVerifyUpi(p, orders[oid].user, pid, rzp, Sign(rzp, pid), oid)

StartCancelOwner(p) == \E oid \in OrderIds : BeginCancel(p, orders[oid].user, "user", oid)

StartCodOwner(p) == \E oid \in OrderIds : BeginCod(p, orders[oid].user, oid)

\* Every order is paid by a payment of its own.
PaymentFor(oid) == IF oid = 1 THEN "pay1" ELSE "pay2"

StartVerifyUpiOwn(p) ==
    \E rzp \in RzpOrders, oid \in OrderIds :
        BeginVerifyUpi(p, orders[oid].user, PaymentFor(oid), rzp,
                       Sign(rzp, PaymentFor(oid)), oid)

StartEptOwn(p) ==
    \E rzp \in RzpOrders, oid \in OrderIds : BeginEpt(p, oid, PaymentFor(oid), rzp)

StockNext ==
    \E p \in Procs :
        \/ StartVerifyUpiOwn(p) \/ UpiIdem(p) \/ VerifyFind(p) \/ UpiLoad(p)
        \/ UpiSave(p) \/ UpiPay(p)
        \/ ReduceEnter(p) \/ ReduceRead(p) \/ ReduceWrite(p) \/ ReduceFlag(p)
        \/ StartEptOwn(p) \/ EptTxn(p)
        \/ StartCancelOwner(p) \/ CancelLoad(p) \/ CancelTxn(p)

SpecStock == StockInit /\ [][StockNext]_vars

\* ------------------------------------------------------------ SpecReplay
\* One request at a time on the same two orders: settlements, and POST /cod,
\* which puts a settled order back to payment status Pending so that it can
\* be settled again.
ReplayNext ==
    \/ StartVerifyUpiValid(1) \/ UpiIdem(1) \/ VerifyFind(1) \/ UpiLoad(1)
    \/ UpiSave(1) \/ UpiPay(1)
    \/ ReduceEnter(1) \/ ReduceRead(1) \/ ReduceWrite(1) \/ ReduceFlag(1)
    \/ StartEpt(1) \/ EptTxn(1)
    \/ StartCodOwner(1) \/ CodLoad(1) \/ CodSave(1) \/ CodClear(1)

SpecReplay == StockInit /\ [][ReplayNext]_vars

\* -------------------------------------------------------------- SpecShip
\* Orders built one request at a time from carts and checkout requests whose
\* subtotals lie below, at and above the free-shipping threshold.
ShipItems ==
    {<<CartItem("p1", 1, FREE_SHIPPING_ABOVE - 1)>>,
     <<CartItem("p1", 1, FREE_SHIPPING_ABOVE)>>,
     <<CartItem("p1", 1, FREE_SHIPPING_ABOVE + 1)>>,
     <<CartItem("p2", 3, 333)>>,
     <<CartItem("p1", 2, 0)>>,
     <<CartItem("p2", 1, 0), CartItem("p1", 1, 0)>>}

ShipCarts == {c \in [Users -> ShipItems \cup {<<>>}] : c["u2"] = <<>>}

ShipInit == InitBase({FullStock}, ShipCarts, {<<>>})

StartCheckoutPending(p) ==
    \E u \in Users, items \in ShipItems \cup {<<>>} : BeginCheckout(p, u, items, "")

ShipNext ==
    \/ StartVerifyValid(1) \/ VerifyIdem(1) \/ VerifyFind(1) \/ Shared(1)
    \/ StartCheckoutPending(1) \/ Checkout(1)

SpecShip == ShipInit /\ [][ShipNext]_vars

\* -------------------------------------------------------------- SpecFail
\* Settlements one request at a time (POST /verify on a cart, POST /verify-upi
\* on an existing order) in which a storage operation of
\* reduceStockAfterPayment or of createPaymentRecord may fail.
FailNext ==
    \/ StartVerifyValid(1) \/ VerifyIdem(1) \/ VerifyFind(1) \/ Shared(1)
    \/ StartVerifyUpiValid(1) \/ UpiIdem(1) \/ UpiLoad(1) \/ UpiSave(1) \/ UpiPay(1)
    \/ ReduceFail(1) \/ PayFail(1)

SpecFail == SeqInit /\ [][FailNext]_vars

\* -------------------------------------------------------------- SpecLife
\* The life of one order, two handlers at a time: settlement by
\* POST /verify-upi, POST /cod, PUT /:id/confirm-payment and PUT /:id/cancel
\* by its owner, PUT /:id/status by an admin.
LifeOrders == <<CreatedOrder("u1", <<CartItem("p1", 1, 600)>>, 1)>>

LifeInit == InitBase({FullStock}, {NoCarts}, {LifeOrders})

StartConfirmOwner(p) == \E oid \in OrderIds : BeginConfirm(p, orders[oid].user, oid)

LifeNext ==
    \E p \in Procs :
        \/ StartVerifyUpiOwn(p) \/ UpiIdem(p) \/ VerifyFind(p) \/ UpiLoad(p)
        \/ UpiSave(p) \/ UpiPay(p)
        \/ ReduceEnter(p) \/ ReduceRead(p) \/ ReduceWrite(p) \/ ReduceFlag(p)
        \/ StartCodOwner(p) \/ CodLoad(p) \/ CodSave(p) \/ CodClear(p)
        \/ StartConfirmOwner(p) \/ ConfirmLoad(p) \/ ConfirmSave(p)
        \/ StartCancelOwner(p) \/ CancelLoad(p) \/ CancelTxn(p)
        \/ StartAdminStatus(p) \/ AdminLoad(p) \/ AdminSave(p)

SpecLife == LifeInit /\ [][LifeNext]_vars

\* --------------------------------------------------------------- SpecPid
\* The same payment presented at several entry points, two handlers at a
\* time: POST /verify-upi on either of two existing orders, POST /verify on a
\* cart and the webhook, each with the gateway's proof for any payment id.
PidCarts == {[u \in Users |-> IF u = "u1" THEN <<CartItem("p2", 1, 0)>> ELSE <<>>]}

PidInit == InitBase({FullStock}, PidCarts, {StockOrders})

PidNext ==
    \E p \in Procs :
        \/ StartVerifyUpiValid(p) \/ UpiIdem(p) \/ UpiLoad(p) \/ UpiSave(p) \/ UpiPay(p)
        \/ StartVerifyValid(p) \/ VerifyIdem(p) \/ VerifyFind(p)
        \/ StartWebhookCaptured(p) \/ WebhookSig(p) \/ WebhookLoad(p) \/ WebhookSave(p)
        \/ Shared(p)

SpecPid == PidInit /\ [][PidNext]_vars

\* --------------------------------------------------------------- SpecTxn
\* withTransaction around the unit of work of cancelOrderWithStockRestore, one
\* call at a time, with every error an attempt or a commit can end with.  A
\* call that has started goes on running.
TxnInit == InitBase({FullStock}, {NoCarts}, {StockOrders})

TxnStep == TxnRun(1) \/ TxnCommit(1) \/ TxnCatch(1)

TxnNext == StartTxn(1) \/ TxnStep

SpecTxn == TxnInit /\ [][TxnNext]_vars /\ WF_vars(TxnStep)

\* -------------------------------------------------------------- SpecHook
\* Webhook deliveries one at a time: signed by the gateway, with a signature
\* that is no keyed hash, and with the signature of another payload.
HookNext ==
    \/ StartWebhook(1) \/ StartWebhookTampered(1)
    \/ WebhookSig(1) \/ WebhookLoad(1) \/ WebhookSave(1)
    \/ Shared(1)

SpecHook == Init /\ [][HookNext]_vars

\* --------------------------------------------------------------- SpecNum
\* Orders created two handlers at a time, by POST /orders and by POST /verify
\* on a cart, next to an admin saving an order that exists.
StartCheckoutOne(p) ==
    \E u \in Users : BeginCheckout(p, u, <<CartItem("p2", 1, 0)>>, "")

NumInit == InitBase({FullStock}, PidCarts, {SettleOrders1})

NumNext ==
    \E p \in Procs :
        \/ StartCheckoutOne(p) \/ Checkout(p)
        \/ StartVerifyValid(p) \/ VerifyIdem(p) \/ VerifyFind(p) \/ Shared(p)
        \/ StartAdminStatus(p) \/ AdminLoad(p) \/ AdminSave(p)

SpecNum == NumInit /\ [][NumNext]_vars

\* -------------------------------------------------------------- SpecUpi
\* Concurrent POST /verify-upi calls by the owners of the two stored orders,
\* each with the gateway's proof.
UpiNext ==
    \E p \in Procs :
        \/ StartVerifyUpiOwn(p) \/ UpiIdem(p) \/ VerifyFind(p) \/ UpiLoad(p)
        \/ UpiSave(p) \/ UpiPay(p)
        \/ ReduceEnter(p) \/ ReduceRead(p) \/ ReduceWrite(p) \/ ReduceFlag(p)

SpecUpi == StockInit /\ [][UpiNext]_vars

\* ----------------------------------------------------------- SpecCancel
\* Concurrent PUT /:id/cancel calls by the owners of two orders that were
\* settled by POST /verify-upi: Paid, stock reduced, one ledger entry each.
ReducedOrder(ord, pid) == [UpiPaidDoc(ord, pid) EXCEPT !.stockReduced = TRUE]

CancelOrders ==
    <<ReducedOrder(StockOrders[1], "pay1"), ReducedOrder(StockOrders[2], "pay2")>>

CancelLedger ==
    <<LedgerEntry("pay1", "ro1", 1, "u1", StockOrders[1].totalAmount, "UPI", "PAID"),
      LedgerEntry("pay2", "ro1", 2, "u2", StockOrders[2].totalAmount, "UPI", "PAID")>>

CancelInit ==
    /\ stock \in {st \in [Products -> 0..MaxStock] : st["p2"] = MaxStock}
    /\ cart = NoCarts
    /\ orders = CancelOrders
    /\ payments = CancelLedger
    /\ proc = [p \in Procs |-> IdleProc]
    /\ calls = 0
    /\ stock0 = stock
    /\ cart0 = cart
    /\ applied = [pr \in Products |-> 0]
    /\ restored = [pr \in Products |-> 0]

CancelNext ==
    \E p \in Procs : StartCancelOwner(p) \/ CancelLoad(p) \/ CancelTxn(p)

SpecCancel == CancelInit /\ [][CancelNext]_vars

\* ------------------------------------------------------------ SpecProof
\* Every call that can write a payment status, two handlers at a time, with
\* the gateway's proof or with another one: POST /verify-upi, POST /webhook,
\* PUT /:id/confirm-payment and POST /cod on one stored order.
StartVerifyUpiProof(p) ==
    \E u \in Users, oid \in OrderIds, rzp \in RzpOrders :
        \E sig \in ProofsFor(rzp, "pay1") : BeginVerifyUpi(p, u, "pay1", rzp, sig, oid)

StartWebhookProof(p) ==
    \E pid \in Pids, rzp \in RzpOrders, oid \in OrderIds \cup {NoOrder}, forged \in BOOLEAN :
        BeginWebhook(p, "payment.captured", pid, rzp,
                     IF oid = NoOrder THEN "u1" ELSE NoUser, oid, forged)

ProofNext ==
    \E p \in Procs :
        \/ StartVerifyUpiProof(p) \/ UpiIdem(p) \/ UpiFailRec(p) \/ VerifyFind(p)
        \/ UpiLoad(p) \/ UpiSave(p) \/ UpiPay(p)
        \/ ReduceEnter(p) \/ ReduceRead(p) \/ ReduceWrite(p) \/ ReduceFlag(p)
        \/ StartWebhookProof(p) \/ WebhookSig(p) \/ WebhookLoad(p) \/ WebhookSave(p)
        \/ CofcCart(p) \/ CofcCount(p) \/ CofcInsert(p)
        \/ CofcPay(p) \/ CofcInvoice(p) \/ CofcClear(p)
        \/ StartConfirm(p) \/ ConfirmLoad(p) \/ ConfirmSave(p)
        \/ StartCodOwner(p) \/ CodLoad(p) \/ CodSave(p) \/ CodClear(p)

ProofInit == InitBase({FullStock}, PidCarts, {SettleOrders1})

SpecProof == ProofInit /\ [][ProofNext]_vars

\* ---------------------------------------------------------- SpecUpiOrder
\* The buy-now flow on two stored orders: POST /create-upi-order, then
\* POST /verify-upi by the owner of an order with the gateway's proof for any
\* external order id.
StartCreateUpiOwner(p) == \E oid \in OrderIds : BeginCreateUpi(p, orders[oid].user, oid)

StartVerifyUpiAnyOrder(p) ==
    \E rzp \in RzpOrders, oid \in OrderIds :
        BeginVerifyUpi(p, orders[oid].user, PaymentFor(oid), rzp,
                       Sign(rzp, PaymentFor(oid)), oid)

UpiOrderNext ==
    \E p \in Procs :
        \/ StartCreateUpiOwner(p) \/ CreateUpiLoad(p) \/ CreateUpiGateway(p)
        \/ CreateUpiSave(p)
        \/ StartVerifyUpiAnyOrder(p) \/ UpiIdem(p) \/ VerifyFind(p) \/ UpiLoad(p)
        \/ UpiSave(p) \/ UpiPay(p)
        \/ ReduceEnter(p) \/ ReduceRead(p) \/ ReduceWrite(p) \/ ReduceFlag(p)

SpecUpiOrder == StockInit /\ [][UpiOrderNext]_vars

\* =============================================================== properties
\* A call is a settlement call when it carries a valid proof: POST /verify
\* with the keyed hash of "{orderId}|{paymentId}", or a signed
\* payment.captured delivery that names a user's cart or an existing order.
ValidVerify(rec) == rec.op = "verify" /\ rec.sig = Sign(rec.rzp, rec.pid)

ValidCaptured(rec) ==
    /\ rec.op = "webhook"
    /\ rec.event = "payment.captured"
    /\ rec.sig = WebhookSign(WebhookBody(rec))
    /\ (rec.oid # NoOrder \/ rec.user # NoUser)

\* No call carrying payment id pid is in flight.
Quiet(pid) == \A q \in Procs : proc[q].pid = pid => proc[q].pc \in {"idle", "done"}

AllQuiet == \A q \in Procs : proc[q].pc \in {"idle", "done"}

\* C1: once every settlement call carrying a payment id has completed (an
\* empty cart aside), exactly one Order and exactly one Payment Ledger Entry
\* bear that payment id.
C1_ExactlyOneOrderAndEntry ==
    \A p \in Procs :
        ( /\ proc[p].pc = "done"
          /\ (ValidVerify(proc[p]) \/ ValidCaptured(proc[p]))
          /\ proc[p].resp.log # "Cart is empty"
          /\ Quiet(proc[p].pid) )
        => /\ Cardinality(OrdersWithPid(proc[p].pid)) = 1
           /\ Cardinality(LedgerWithPid(proc[p].pid)) = 1

\* C2: every completed POST /verify with a valid proof, for a payment id that
\* an order of the caller bears, answers success with that order's number (a
\* failure of the invoice collaborator aside).
C2_AllCallsReturnTheOrder ==
    \A p \in Procs :
        ( /\ proc[p].pc = "done"
          /\ ValidVerify(proc[p])
          /\ proc[p].resp.log # "invoice failed"
          /\ \E o \in OrdersWithPid(proc[p].pid) : orders[o].user = proc[p].user )
        => /\ proc[p].resp.success
           /\ proc[p].resp.orderNumber = orders[FindOneByPid(proc[p].pid)].orderNumber

\* C11: every stored order carries shipping charge 49 when the subtotal of its
\* items is below 999 and 0 when it is 999 or more, and its total is the
\* subtotal plus the shipping charge.
C11_ShippingRule ==
    \A o \in OrderIds :
        LET sub == Subtotal(orders[o].items)
        IN /\ orders[o].shippingCharge = IF sub < 999 THEN 49 ELSE 0
           /\ orders[o].totalAmount = sub + orders[o].shippingCharge

\* A handler that works on order o is in flight.
InFlightOn(o) == \E p \in Procs : proc[p].oid = o /\ proc[p].pc \notin {"idle", "done"}

\* C12: an order stored as Paid on which no settlement is in flight has had
\* its stock reduced (stockReduced is true) and has a PAID ledger entry linked
\* to it: the three effects of its settlement are all there.
C12_SettlementAllOrNothing ==
    \A o \in OrderIds :
        (orders[o].paymentStatus = "Paid" /\ ~InFlightOn(o))
        => /\ orders[o].stockReduced
           /\ \E k \in 1..Len(payments) :
                 payments[k].order = o /\ payments[k].status = "PAID"

TwoSettlements ==
    /\ calls = 2
    /\ \A p \in Procs : proc[p].pc = "done" /\ proc[p].op \in {"verifyUpi", "ept"}
    /\ proc[1].pid # proc[2].pid
    /\ proc[1].oid # proc[2].oid

\* C4: after two concurrent settlements for different payment ids whose
\* orders contain the same product, the stock of every product is its initial
\* stock minus the decrements that were applied.
C4_NoLostDecrement ==
    TwoSettlements => \A pr \in Products : stock[pr] = stock0[pr] - applied[pr]

\* C5: reduceStockAfterPayment called on an order document whose stockReduced
\* flag is true returns to its caller without a stock write, and an attempt of
\* executePaymentTransaction on such a document writes no stock.
C5_ReplayChangesNoStock ==
    [][\A p \in Procs :
          ( /\ proc[p].pc \in {"r_enter", "e_txn"}
            /\ proc[p].doc.stockReduced
            /\ proc'[p] # proc[p] )
          => /\ stock' = stock
             /\ proc[p].pc = "r_enter" => proc'[p].pc = AfterReducePc(proc[p].op)]_vars

\* C5 witness: an order settled, put back to Pending by POST /cod and settled
\* again by POST /verify-upi has passed reduceStockAfterPayment the second
\* time, and the stock is what the first settlement left.
C5_Witness ==
    \E p \in Procs :
        /\ proc[p].op = "verifyUpi" /\ proc[p].pc = "u_pay"
        /\ proc[p].doc.stockReduced
        /\ proc[p].doc.statusHistory = <<"CREATED", "PAID", "PLACED", "PAID">>
        /\ \A pr \in Products :
              stock[pr] = Max(0, stock0[pr] - QtyOf(proc[p].doc.items, pr))

\* C6: when no request is in flight and every order whose stock was reduced
\* has been cancelled, the stock of every product is what it was before the
\* settlements: a cancellation gives back exactly what the settlement took,
\* and nothing for an order that was never settled.
C6_CancelRestoresWhatSettlementRemoved ==
    ( /\ AllQuiet
      /\ \A o \in OrderIds : orders[o].stockReduced => orders[o].status = "CANCELLED" )
    => \A pr \in Products : stock[pr] = stock0[pr]

\* A verify call whose proof is not the keyed hash of "{orderId}|{paymentId}".
BadProof(rec) == rec.op \in {"verify", "verifyUpi"} /\ rec.sig # Sign(rec.rzp, rec.pid)

\* C7: a step of a verify call with a bad proof inserts no order and changes
\* no stored order, and when the call answers, the answer is the
\* invalid-signature error.
C7_BadProofAlwaysRejected ==
    [][\A p \in Procs :
          ( /\ BadProof(proc[p])
            /\ proc[p].pc \notin {"idle", "done"}
            /\ proc'[p] # proc[p] )
          => /\ orders' = orders
             /\ proc'[p].pc = "done" =>
                   /\ proc'[p].resp.code = 400
                   /\ proc'[p].resp.msg = "Invalid payment signature"]_vars

\* The happy path: the first and only request of the run is a POST /verify
\* with the gateway's proof, by a user whose cart subtotal is 1200, and the
\* invoice collaborator does not fail.
HappyCall(p) ==
    /\ calls = 1
    /\ proc[p].pc = "done"
    /\ ValidVerify(proc[p])
    /\ Subtotal(EnrichedItems(cart0[proc[p].user])) = 1200
    /\ proc[p].resp.log # "invoice failed"

\* What the happy path leaves in the Order and Payment collections and in the
\* cart, and what it answers.
HappyOrderAndEntry(p) ==
    /\ proc[p].resp.success
    /\ Cardinality(OrdersWithPid(proc[p].pid)) = 1
    /\ \A o \in OrdersWithPid(proc[p].pid) :
          /\ orders[o].status = "PAID"
          /\ orders[o].paymentStatus = "Paid"
          /\ orders[o].shippingCharge = 0
          /\ orders[o].totalAmount = 1200
          /\ orders[o].user = proc[p].user
          /\ proc[p].resp.orderId = o
    /\ Cardinality(LedgerWithPid(proc[p].pid)) = 1
    /\ \A k \in LedgerWithPid(proc[p].pid) :
          /\ payments[k].status = "PAID"
          /\ payments[k].amount = 1200
          /\ payments[k].order \in OrdersWithPid(proc[p].pid)
    /\ cart[proc[p].user] = <<>>

C8_CodCeiling ==
    [][\A p \in Procs :
          /\ ( /\ proc[p].pc = "d_load"
               /\ proc'[p] # proc[p]
               /\ proc[p].oid \in OrderIds
               /\ orders[proc[p].oid].user = proc[p].user )
             => /\ orders[proc[p].oid].totalAmount > 5000 =>
                      /\ proc'[p].pc = "done"
                      /\ proc'[p].resp.code = 400
                      /\ proc'[p].resp.msg =
                            "COD is only available for orders up to 5,000"
                      /\ orders' = orders /\ stock' = stock
                      /\ cart' = cart /\ payments' = payments
                /\ orders[proc[p].oid].totalAmount = 5000 =>
                      /\ proc'[p].pc = "d_save"
                      /\ proc'[p].doc.status = "PLACED"
          /\ ( proc[p].pc = "d_save" /\ proc'[p] # proc[p] )
             => /\ orders'[proc[p].oid].status = "PLACED"
                /\ orders'[proc[p].oid].paymentMethod = "COD"]_vars

\* C8 witness: a call on an order above the ceiling was refused and left it
\* as it was, and an order of exactly 5000 has been placed.
C8_Witness ==
    /\ \E p \in Procs :
          /\ proc[p].op = "cod" /\ proc[p].pc = "done"
          /\ proc[p].resp.msg = "COD is only available for orders up to 5,000"
          /\ orders[proc[p].oid].totalAmount > 5000
          /\ orders[proc[p].oid].status = "CREATED"
    /\ \E o \in OrderIds :
          orders[o].totalAmount = 5000 /\ orders[o].status = "PLACED"

\* An order bears the delivery's payment id and is not the one this delivery
\* inserted: the payment has been delivered before.
DeliveredBefore(rec) == \E o \in OrdersWithPid(rec.pid) : o # rec.oid

\* C9: a step of a payment.captured delivery whose payment id was delivered
\* before, and every step of a delivery for an existing order, inserts no
\* order, writes no stock and inserts no ledger entry.
C9_DuplicateWebhookNoEffect ==
    [][\A p \in Procs :
          ( /\ proc[p].op = "webhook"
            /\ proc[p].pc \notin {"idle", "done"}
            /\ proc'[p] # proc[p]
            /\ (DeliveredBefore(proc[p]) \/ proc[p].pc \in {"w_load", "w_save"}) )
          => /\ Len(orders') = Len(orders)
             /\ stock' = stock
             /\ payments' = payments]_vars

\* C9 witness: one delivery lost the race on the unique index, a later one
\* found the payment already processed.
C9_Witness ==
    \E p, q \in Procs :
        /\ p # q
        /\ proc[p].op = "webhook" /\ proc[q].op = "webhook"
        /\ proc[p].pid = proc[q].pid
        /\ proc[p].pc = "done" /\ proc[p].resp.log = "E11000"
        /\ proc[q].pc = "done" /\ proc[q].resp.msg = "already_processed"

\* C13: a step of PUT /:id/cancel taken while its order is SHIPPED, DELIVERED
\* or CANCELLED changes no order and no stock, and when it answers, it answers
\* with an error.
CancelSteps(p) ==
    /\ proc[p].op = "cancel"
    /\ proc[p].pc \in {"x_load", "x_txn"}
    /\ proc'[p] # proc[p]
    /\ proc[p].oid \in OrderIds

C13_CancelRejectedOnFinalStatus ==
    [][\A p \in Procs :
          (CancelSteps(p)
             /\ orders[proc[p].oid].status \in {"SHIPPED", "DELIVERED", "CANCELLED"})
          => /\ orders' = orders
             /\ stock' = stock
             /\ (proc'[p].pc = "done" => ~proc'[p].resp.success)]_vars

\* C14: every step of cancelOrderWithStockRestore, an aborted attempt
\* included, either leaves every order and all stock as they were, or sets the
\* order CANCELLED and in the same step adds the quantity of every line item
\* back to the stock when the order was stock-reduced.
C14_CancelAtomicWithRestore ==
    [][\A p \in Procs :
          CancelSteps(p)
          => LET o == proc[p].oid
             IN \/ orders' = orders /\ stock' = stock
                \/ /\ orders'[o].status = "CANCELLED"
                   /\ \A q \in OrderIds \ {o} : orders'[q] = orders[q]
                   /\ stock' = IF orders[o].stockReduced
                               THEN RestoreAll(stock, orders[o].items)
                               ELSE stock]_vars

\* A cancel has answered success for a stock-reduced order and units went back.
C14_Witness ==
    \E p \in Procs :
        /\ proc[p].op = "cancel" /\ proc[p].pc = "done" /\ proc[p].resp.success
        /\ orders[proc[p].oid].status = "CANCELLED"
        /\ orders[proc[p].oid].stockReduced
        /\ \E pr \in Products : restored[pr] > 0

\* C15: every change of an order's status follows
\* CREATED -> {PENDING, PAID, PLACED} -> SHIPPED -> DELIVERED, or moves to
\* CANCELLED from a status other than SHIPPED and DELIVERED; the status of a
\* DELIVERED or CANCELLED order never changes.
LegalTransition(old, new) ==
    \/ old = "CREATED" /\ new \in {"PENDING", "PAID", "PLACED"}
    \/ old \in {"PENDING", "PAID", "PLACED"} /\ new = "SHIPPED"
    \/ old = "SHIPPED" /\ new = "DELIVERED"
    \/ new = "CANCELLED" /\ old \notin {"SHIPPED", "DELIVERED", "CANCELLED"}

C15_StatusFollowsLifecycle ==
    [][\A o \in OrderIds :
          orders'[o].status # orders[o].status
          => LegalTransition(orders[o].status, orders'[o].status)]_vars

\* C16: in every step the status history of every order before the step is
\* a prefix of its status history after the step.
IsPrefix(h, g) == Len(h) <= Len(g) /\ SubSeq(g, 1, Len(h)) = h

C16_HistoryAppendOnly ==
    [][\A o \in OrderIds :
          IsPrefix(orders[o].statusHistory, orders'[o].statusHistory)]_vars

\* Two entries were appended to an order, and another handler still holds a
\* copy of it loaded before the last of them.
C16_Witness ==
    \E o \in OrderIds :
        /\ Len(orders[o].statusHistory) >= 3
        /\ orders[o].statusHistory[2] # orders[o].statusHistory[3]
        /\ \E p \in Procs :
              /\ proc[p].oid = o /\ proc[p].pc = "done" /\ proc[p].resp.success
              /\ \E q \in Procs \ {p} :
                    /\ proc[q].oid = o /\ proc[q].base # NoDoc
                    /\ Len(proc[q].base.statusHistory) < Len(orders[o].statusHistory)

\* C17: the status history of every stored order is non-empty and its last
\* entry carries the order's current status.
C17_LastHistoryEntryIsStatus ==
    \A o \in OrderIds :
        /\ Len(orders[o].statusHistory) > 0
        /\ orders[o].statusHistory[Len(orders[o].statusHistory)] = orders[o].status

\* C18: an order whose status is PAID or PLACED has payment status Paid.
C18_PaidOrPlacedIsPaid ==
    \A o \in OrderIds :
        orders[o].status \in {"PAID", "PLACED"} => orders[o].paymentStatus = "Paid"

\* C19: no two stored orders carry the same payment id.
C19_PaymentIdSettlesOneOrder ==
    \A o1, o2 \in OrderIds :
        (o1 # o2 /\ orders[o1].paymentId # NoPid)
        => orders[o1].paymentId # orders[o2].paymentId

\* Two handlers presented one payment id for different orders: one order
\* carries it, the other handler was refused by the index.
C19_Witness ==
    \E p, q \in Procs :
        /\ p # q
        /\ proc[p].pid = proc[q].pid /\ proc[p].pid # NoPid
        /\ proc[p].pc = "done" /\ proc[p].resp.success
        /\ proc[p].resp.orderId \in OrderIds
        /\ orders[proc[p].resp.orderId].paymentId = proc[p].pid
        /\ proc[q].pc = "done" /\ ~proc[q].resp.success
        /\ proc[q].op = "verifyUpi" /\ proc[q].oid # proc[p].resp.orderId
        /\ proc[q].resp.code = 500

\* C20: the ledger never holds two entries with one payment id, and a step
\* that inserts an entry whose payment id is already in the ledger (in
\* createPaymentRecord or in executePaymentTransaction) leaves the ledger
\* unchanged and does not end its call in a failure.
AtMostOneEntryPerPid(ledger) ==
    \A pid \in Pids :
        Cardinality({k \in 1..Len(ledger) : ledger[k].razorpayPaymentId = pid}) <= 1

DuplicateInsert(p) ==
    /\ proc[p].pc \in {"c_pay", "u_pay", "u_failrec", "e_txn"}
    /\ proc'[p] # proc[p]
    /\ LedgerWithPid(proc[p].pid) # {}
    /\ proc[p].pc = "e_txn" => ~PidClash(proc[p].oid, proc[p].pid)

C20_DuplicateLedgerInsertIsNoOp ==
    [][/\ AtMostOneEntryPerPid(payments')
       /\ \A p \in Procs :
             DuplicateInsert(p)
             => /\ payments' = payments
                /\ proc'[p].pc = "done" => proc'[p].resp.code # 500]_vars

\* C21: a step that rejects a settlement attempt for its signature, on
\* POST /verify, POST /verify-upi or the webhook, changes no order and no
\* stock, and after it the ledger holds a FAILED entry for the payment id.
RejectsSignature(p) ==
    /\ proc[p].pc # "done"
    /\ proc'[p].pc = "done"
    /\ proc'[p].resp.msg \in {"Invalid payment signature", "Invalid webhook signature"}

C21_InvalidSignatureRecordedFailed ==
    [][\A p \in Procs :
          RejectsSignature(p)
          => /\ orders' = orders
             /\ stock' = stock
             /\ \E k \in 1..Len(payments') :
                   /\ payments'[k].razorpayPaymentId = proc[p].pid
                   /\ payments'[k].status = "FAILED"]_vars

\* C22: no step of POST /cod, or of POST /verify-upi with the gateway's proof,
\* made for a caller who does not own the order changes an order, the stock
\* or the ledger, and the call does not answer success.
NotOwnerStep(p) ==
    /\ \/ proc[p].op = "cod"
       \/ proc[p].op = "verifyUpi" /\ proc[p].sig = Sign(proc[p].rzp, proc[p].pid)
    /\ proc[p].pc \notin {"idle", "done"}
    /\ proc'[p] # proc[p]
    /\ proc[p].oid \in OrderIds
    /\ orders[proc[p].oid].user # proc[p].user

C22_NotOwnerChangesNothing ==
    [][\A p \in Procs :
          NotOwnerStep(p)
          => /\ orders' = orders
             /\ stock' = stock
             /\ payments' = payments
             /\ proc'[p].pc = "done" => ~proc'[p].resp.success]_vars

\* C23: withTransaction runs its unit of work at most DEFAULT_MAX_RETRIES
\* times.  An attempt starts at the call, or after an error that carries the
\* transient label or code 251, 112 or 244 while attempts remain; any other
\* error, and any error of the last attempt, is thrown with nothing written
\* and no further attempt; a commit ends the call with success; every call
\* that has started ends.
InTxn(p) == proc[p].pc \in {"t_run", "t_commit", "t_catch"}

TxnAttemptStarts(p) ==
    /\ proc'[p].pc = "t_run"
    /\ \/ proc[p].pc \in {"idle", "done"} /\ proc'[p].attempt = 1
       \/ /\ proc[p].pc = "t_catch"
          /\ proc[p].event \in {"TransientTransactionError", "251", "112", "244"}
          /\ proc[p].attempt < DEFAULT_MAX_RETRIES
          /\ proc'[p].attempt = proc[p].attempt + 1

TxnMustThrow(p) ==
    /\ proc[p].pc = "t_catch"
    /\ \/ proc[p].event \notin {"TransientTransactionError", "251", "112", "244"}
       \/ proc[p].attempt = DEFAULT_MAX_RETRIES

PostCommit(p) ==
    /\ proc[p].op \in {"verify", "verifyUpi"}
    /\ proc[p].pc \in {"c_invoice", "c_clear"}
    /\ proc[p].oid \in OrderIds
    /\ orders[proc[p].oid].paymentStatus = "Paid"

C24_PostCommitFailureIsNotFatal ==
    [][\A p \in Procs :
          (PostCommit(p) /\ proc'[p].pc = "done")
          => /\ proc'[p].resp.success
             /\ proc'[p].resp.orderId = proc[p].oid
             /\ orders'[proc[p].oid].paymentStatus = "Paid"]_vars

\* C25: the step a webhook handler takes on a delivery whose signature header
\* is not the keyed hash of its payload is its last: it answers 400 and
\* changes no order, no stock, no ledger entry and no cart.
SignatureMismatch(p) ==
    /\ proc[p].op = "webhook"
    /\ proc[p].pc = "w_sig"
    /\ proc[p].sig # <<"whmac", WebhookBody(proc[p])>>

C25_UnsignedWebhookChangesNothing ==
    [][\A p \in Procs :
          (SignatureMismatch(p) /\ proc'[p] # proc[p])
          => /\ proc'[p].pc = "done"
             /\ proc'[p].resp.code = 400
             /\ UNCHANGED <<orders, stock, payments, cart>>]_vars

\* A delivery signed for another payload has been refused.
C25_Witness ==
    \E p \in Procs :
        /\ proc[p].op = "webhook" /\ proc[p].pc = "done"
        /\ proc[p].sig # Forged
        /\ proc[p].sig # WebhookSign(WebhookBody(proc[p]))
        /\ proc[p].resp.code = 400

\* C26: when a settlement call answers success (POST /verify, POST /verify-upi
\* or POST /cod having settled an order), the order it names has its
\* stockReduced flag set and the ledger holds an entry linked to that order.
SettlementAnswers(p) ==
    /\ proc[p].pc # "done"
    /\ proc'[p].pc = "done"
    /\ proc'[p].resp.success
    /\ proc'[p].resp.msg \in {"Payment verified & order created",
                              "Payment verified successfully",
                              "COD order placed successfully"}

C26_UniformSettlement ==
    [][\A p \in Procs :
          SettlementAnswers(p)
          => LET o == proc'[p].resp.orderId
             IN /\ o \in 1..Len(orders')
                /\ orders'[o].stockReduced
                /\ \E k \in 1..Len(payments') : payments'[k].order = o]_vars

\* C27: no two stored orders share an order number; no step changes the
\* order number of a stored order; an order stored by a step has a number
\* greater than the number of every order stored before the step.
C27_OrderNumbers ==
    /\ [](\A o1, o2 \in OrderIds :
             o1 # o2 => orders[o1].orderNumber # orders[o2].orderNumber)
    /\ [][/\ Len(orders') >= Len(orders)
          /\ \A o \in OrderIds : orders'[o].orderNumber = orders[o].orderNumber
          /\ \A n \in (Len(orders) + 1)..Len(orders') :
                \A o \in OrderIds : orders'[n].orderNumber > orders[o].orderNumber]_vars

\* Two handlers had counted the same number of orders; one has stored its
\* order, the other was refused by the index.
C27_Witness ==
    \E p, q \in Procs :
        /\ p # q
        /\ proc[p].pc = "done" /\ proc[p].resp.success
        /\ proc[p].resp.orderId \in OrderIds
        /\ proc[q].pc = "done" /\ ~proc[q].resp.success
        /\ proc[q].op = "checkout" /\ proc[q].resp.msg = "create failed"
        /\ Len(orders) >= 2

\* C28: a verify call (POST /verify or POST /verify-upi) that starts when an
\* order already carries its payment id changes no order, no stock and no
\* ledger entry, and answers success with the id and number of that order.
LaterVerifyStep(p) ==
    /\ proc[p].op \in {"verify", "verifyUpi"}
    /\ proc[p].pc \in {"v_idem", "u_idem", "v_find"}
    /\ OrdersWithPid(proc[p].pid) # {}
    /\ proc'[p] # proc[p]

C28_RetriesConverge ==
    [][\A p \in Procs :
          LaterVerifyStep(p)
          => /\ UNCHANGED <<orders, stock, payments>>
             /\ proc'[p].pc \in {"v_find", "done"}
             /\ proc'[p].pc = "done"
                   => /\ proc'[p].resp.success
                      /\ proc'[p].resp.orderId \in OrdersWithPid(proc[p].pid)
                      /\ proc'[p].resp.orderNumber =
                            orders[proc'[p].resp.orderId].orderNumber]_vars

\* C29: a settlement step that decrements the stock of a line item whose
\* product has less stock than the quantity leaves that product's stock as it
\* is, and the order of the settlement is still stored as Paid.
ShortItemStep(p, pr) ==
    \/ /\ proc[p].pc = "r_write"
       /\ proc[p].doc.items[proc[p].i].product = pr
       /\ stock[pr] < Qty(proc[p].doc.items[proc[p].i])
    \/ /\ proc[p].pc = "e_txn"
       /\ \E k \in 1..Len(proc[p].doc.items) : proc[p].doc.items[k].product = pr
       /\ \A k \in 1..Len(proc[p].doc.items) :
             proc[p].doc.items[k].product = pr => stock[pr] < Qty(proc[p].doc.items[k])

C29_InsufficientStockLeavesStock ==
    [][\A p \in Procs : \A pr \in Products :
          (ShortItemStep(p, pr) /\ proc'[p] # proc[p])
          => /\ stock'[pr] = stock[pr]
             /\ proc[p].pc = "r_write" => orders'[proc[p].oid].paymentStatus = "Paid"]_vars

\* C30: however POST /verify-upi calls for one existing order interleave,
\* the stock of each of its products goes down by the ordered quantity once
\* in total, and the stored stockReduced flag of the order, once true, is
\* not set a second time from false.
\* Every call made so far was for order o.
OnlyOrder(o) ==
    /\ \A q \in OrderIds \ {o} : orders[q].paymentStatus # "Paid"
    /\ \A p \in Procs : proc[p].pc # "idle" => proc[p].op = "verifyUpi" /\ proc[p].oid = o

AllAnswered == \A p \in Procs : proc[p].pc \in {"idle", "done"}

DecrementedOnce(o) ==
    \A pr \in Products :
        /\ stock[pr] >= Max(0, stock0[pr] - QtyOf(orders[o].items, pr))
        /\ (AllAnswered /\ orders[o].stockReduced)
              => stock[pr] = Max(0, stock0[pr] - QtyOf(orders[o].items, pr))

C30_ConcurrentUpiReducesOnce ==
    /\ [](\A o \in OrderIds : OnlyOrder(o) => DecrementedOnce(o))
    /\ [][\A o \in OrderIds : orders[o].stockReduced => orders'[o].stockReduced]_vars

\* C31: when a settlement (POST /verify-upi) and a cancellation of the same
\* order were the only two calls and both have answered, an order that ends
\* CANCELLED has had no net effect on the stock of any product (the stock
\* covered the ordered quantities, so that no decrement was cut short).
SettledAndCancelled(o) ==
    /\ calls = 2
    /\ \A pr \in Products : stock0[pr] >= QtyOf(orders[o].items, pr)
    /\ \A p \in Procs : proc[p].pc = "done" /\ proc[p].oid = o
    /\ \E p, q \in Procs : proc[p].op = "verifyUpi" /\ proc[q].op = "cancel"

C31_CancelledOrderHoldsNoStock ==
    \A o \in OrderIds :
        (SettledAndCancelled(o) /\ orders[o].status = "CANCELLED")
        => \A pr \in Products : stock[pr] = stock0[pr]

\* C32: no step of a PUT /:id/cancel call turns an order that is stored as
\* SHIPPED or DELIVERED into a CANCELLED one.
C32_ShippedIsNotCancelledByCancel ==
    [][\A o \in OrderIds :
          (orders[o].status \in {"SHIPPED", "DELIVERED"} /\ orders'[o].status = "CANCELLED")
          => \A p \in Procs :
                ~(proc[p].op = "cancel" /\ proc[p].oid = o /\ proc'[p] # proc[p])]_vars

\* C33: however PUT /:id/cancel calls on stock-reduced orders interleave, an
\* order gets at most one CANCELLED history entry, the stock of every product
\* is its initial stock plus the quantities of the orders cancelled so far
\* (each once), no more calls have answered success for an order than it has
\* CANCELLED entries, and when the only two calls were for the same order and
\* neither ran out of attempts, exactly one of them has answered success.
CancelledEntries(o) ==
    Cardinality({k \in 1..Len(orders[o].statusHistory) :
                    orders[o].statusHistory[k] = "CANCELLED"})

CancelSuccesses(o) ==
    Cardinality({p \in Procs : /\ proc[p].op = "cancel" /\ proc[p].oid = o
                               /\ proc[p].pc = "done" /\ proc[p].resp.success})

TwoCancelsAnswered(o) ==
    /\ calls = 2
    /\ \A p \in Procs : /\ proc[p].op = "cancel" /\ proc[p].oid = o
                        /\ proc[p].pc = "done" /\ proc[p].resp.log # "transient"

C33_ConcurrentCancelsRestoreOnce ==
    /\ \A o \in OrderIds :
          /\ CancelledEntries(o) <= 1
          /\ CancelSuccesses(o) <= CancelledEntries(o)
          /\ (orders[o].status = "CANCELLED") = (CancelledEntries(o) = 1)
          /\ TwoCancelsAnswered(o) => CancelSuccesses(o) = 1 /\ CancelledEntries(o) = 1
    /\ \A pr \in Products :
          stock[pr] = stock0[pr]
                      + SumSeq([o \in OrderIds |->
                                  CancelledEntries(o) * QtyOf(orders[o].items, pr)])

\* C33 witness: two cancel calls for the same order were in flight together
\* (both had passed the route's checks), one has answered success and the
\* other was rejected, and the units went back once.
C33_Witness ==
    \E o \in OrderIds :
        /\ TwoCancelsAnswered(o)
        /\ \E p \in Procs : proc[p].resp.log = "already cancelled"
        /\ restored["p1"] = QtyOf(orders[o].items, "p1")
        /\ restored["p1"] > 0

\* C34: when a payment.captured webhook with a valid signature has found the
\* order named in its notes unpaid, the step in which it saves the order and
\* answers leaves that order stored with payment status Paid and with the
\* webhook's payment id.
C34_WebhookSettlesExistingOrder ==
    [][\A p \in Procs :
          (proc[p].op = "webhook" /\ proc[p].pc = "w_save" /\ proc'[p].pc = "done")
          => /\ orders'[proc[p].oid].paymentStatus = "Paid"
             /\ orders'[proc[p].oid].paymentId = proc[p].pid]_vars

\* C35: no step of a call other than the admin's status update takes the
\* payment status of an order away from Paid, and no step of POST /cod sets
\* the status PLACED on an order that was SHIPPED, DELIVERED or CANCELLED.
UserStep(p, o) ==
    /\ proc[p].op # "adminStatus"
    /\ proc[p].oid = o
    /\ proc'[p] # proc[p]

C35_PaidIsNotReverted ==
    [][\A o \in OrderIds : \A p \in Procs :
          UserStep(p, o)
          => /\ orders[o].paymentStatus = "Paid" => orders'[o].paymentStatus = "Paid"
             /\ (proc[p].op = "cod" /\ orders[o].status \in {"SHIPPED", "DELIVERED", "CANCELLED"})
                   => orders'[o].status = orders[o].status]_vars

\* C36: a step that stores an order with payment status Paid which was not
\* stored as Paid before is a step of a POST /verify, POST /verify-upi or
\* POST /webhook call whose signature is the keyed hash of what it presents,
\* and no step of PUT /:id/confirm-payment changes any stored order.
BecomesPaid(o) ==
    /\ orders'[o].paymentStatus = "Paid"
    /\ o \in OrderIds => orders[o].paymentStatus # "Paid"

ProvenStep(p) ==
    /\ proc'[p] # proc[p]
    /\ \/ /\ proc[p].op \in {"verify", "verifyUpi"}
          /\ proc[p].sig = Sign(proc[p].rzp, proc[p].pid)
       \/ /\ proc[p].op = "webhook"
          /\ proc[p].sig = WebhookSign(WebhookBody(proc[p]))

ProofOfAnotherOrder(p) ==
    /\ proc[p].op = "verifyUpi"
    /\ proc[p].sig = Sign(proc[p].rzp, proc[p].pid)
    /\ proc[p].oid \in OrderIds
    /\ orders[proc[p].oid].razorpayOrderId # proc[p].rzp
    /\ \E o \in OrderIds \ {proc[p].oid} : orders[o].razorpayOrderId = proc[p].rzp

C37_ProofSettlesItsOwnOrder ==
    [][\A p \in Procs :
          (ProofOfAnotherOrder(p) /\ proc'[p] # proc[p])
          => (orders[proc[p].oid].paymentStatus # "Paid"
                 => orders'[proc[p].oid].paymentStatus # "Paid")]_vars

\* C38: when a creation (createOrderFromCart or POST /orders) inserts its
\* order, the number it counted is not the number of a stored order: the
\* insert is not refused by the index on the order number.
InsertStep(p) ==
    /\ proc[p].pc \in {"c_insert", "o_insert"}
    /\ proc'[p] # proc[p]

C38_NoOrderNumberCollision ==
    [][\A p \in Procs : InsertStep(p) => ~NumberClash(proc[p].doc.orderNumber)]_vars

\* C39: when a verify call has answered success for an order, every ledger
\* entry that bears the payment id of the call has status PAID and is linked
\* to that order.
C39_LedgerEntryOfSettlementIsPaid ==
    \A p \in Procs :
        ( /\ proc[p].op \in {"verify", "verifyUpi"}
          /\ proc[p].pc = "done"
          /\ proc[p].resp.success
          /\ proc[p].resp.orderId \in OrderIds )
        => \A k \in LedgerWithPid(proc[p].pid) :
              /\ payments[k].status = "PAID"
              /\ payments[k].order = proc[p].resp.orderId

\* C40: in withTransaction, when an attempt is over (the next attempt is
\* about to start its session, or the function has returned or thrown) its
\* session has been ended and its transaction is committed or aborted; while
\* an attempt runs exactly one session is open.
C40_AttemptFinishedBeforeNext ==
    \A p \in Procs :
        proc[p].op = "withTransaction"
        => /\ proc[p].pc \in {"t_commit", "t_catch"} => proc[p].sessions = 1
           /\ proc[p].pc = "t_run"
                 => /\ proc[p].sessions = 0
                    /\ proc[p].txn = (IF proc[p].attempt = 1 THEN "none" ELSE "aborted")
           /\ proc[p].pc = "done"
                 => /\ proc[p].sessions = 0
                    /\ proc[p].txn \in {"committed", "aborted"}
                    /\ proc[p].txn = "committed" <=> proc[p].resp.success

====
